---- MODULE Spec2Model ----
(***************************************************************************)
(* IOC-Intel: the reactive preference persistence engine.                  *)
(*                                                                         *)
(* The module models StateManager (load / save / debounced save), the      *)
(* PreferencesState singleton built on it (loader, saver, auto-save        *)
(* effect), the background script's storage-change listener and the URL    *)
(* input of the popup, together with the host collaborators they await     *)
(* (storage get/set, context menus).                                       *)
(* It also models the pure parts of the program, each called on its own:   *)
(* reconciliation (URL filtering and cleanObject) and the IOC pipeline     *)
(* (classification, flag lookup, sanitisation, clipboard decisions).       *)
(*                                                                         *)
(* Strings are TLA+ strings; a character is a string of length one.        *)
(* Objects that JavaScript shares by reference (the IOC definitions held   *)
(* by the live state, by a loader's output and by a save snapshot) live in *)
(* `heap`, and their holders keep object ids.                              *)
(***************************************************************************)
EXTENDS Integers, Sequences, FiniteSets, TLC

(***************************************************************************)
(* Strings and the URL pattern (src/lib/IOC/ioc-utils.ts)                  *)
(***************************************************************************)

Ch(s, i) == SubSeq(s, i, i)

Whitespace == {" ", "\t", "\n", "\r"}

LowerAlpha ==
    {"a","b","c","d","e","f","g","h","i","j","k","l","m",
     "n","o","p","q","r","s","t","u","v","w","x","y","z"}

Digits == {"0","1","2","3","4","5","6","7","8","9"}

\* String.prototype.toLowerCase on one character (ASCII letters).
toLowerCaseChar(c) ==
    CASE c = "A" -> "a" [] c = "B" -> "b" [] c = "C" -> "c" [] c = "D" -> "d"
      [] c = "E" -> "e" [] c = "F" -> "f" [] c = "G" -> "g" [] c = "H" -> "h"
      [] c = "I" -> "i" [] c = "J" -> "j" [] c = "K" -> "k" [] c = "L" -> "l"
      [] c = "M" -> "m" [] c = "N" -> "n" [] c = "O" -> "o" [] c = "P" -> "p"
      [] c = "Q" -> "q" [] c = "R" -> "r" [] c = "S" -> "s" [] c = "T" -> "t"
      [] c = "U" -> "u" [] c = "V" -> "v" [] c = "W" -> "w" [] c = "X" -> "x"
      [] c = "Y" -> "y" [] c = "Z" -> "z" [] OTHER -> c

RECURSIVE toLowerCase(_)
toLowerCase(s) ==
    IF Len(s) = 0 THEN ""
    ELSE toLowerCaseChar(Ch(s, 1)) \o toLowerCase(SubSeq(s, 2, Len(s)))

\* String.prototype.replaceAll(c, '') for a one-character c.
RECURSIVE removeAll(_, _)
removeAll(s, c) ==
    IF Len(s) = 0 THEN ""
    ELSE (IF Ch(s, 1) = c THEN "" ELSE Ch(s, 1)) \o removeAll(SubSeq(s, 2, Len(s)), c)

RECURSIVE trimStart(_)
trimStart(s) ==
    IF Len(s) > 0 /\ Ch(s, 1) \in Whitespace THEN trimStart(SubSeq(s, 2, Len(s))) ELSE s

RECURSIVE trimEnd(_)
trimEnd(s) ==
    IF Len(s) > 0 /\ Ch(s, Len(s)) \in Whitespace THEN trimEnd(SubSeq(s, 1, Len(s) - 1)) ELSE s

trim(s) == trimEnd(trimStart(s))

\* string.replaceAll('[', '').replaceAll(']', '').trim().toLowerCase()
normaliseString(s) == toLowerCase(trim(removeAll(removeAll(s, "["), "]")))

(* A regular expression is run as a map on sets of positions: a position   *)
(* p in 0..Len(s) stands for "the first p characters are consumed", and    *)
(* each construct maps the positions it may start at to those it may end   *)
(* at.                                                                     *)

\* the literal `lit`
ReLit(s, lit, S) ==
    {p + Len(lit) : p \in {q \in S : q + Len(lit) <= Len(s) /\ SubSeq(s, q + 1, q + Len(lit)) = lit}}

\* A character class: [...] lists its characters, [^...] those it excludes.
Class(chars) == [negated |-> FALSE, chars |-> chars]
NegatedClass(chars) == [negated |-> TRUE, chars |-> chars]
InClass(c, class) == (c \in class.chars) # class.negated

\* between lo and hi characters of the class
ReRep(s, class, lo, hi, S) ==
    {q \in 0..Len(s) : \E p \in S :
        /\ q - p >= lo
        /\ q - p <= hi
        /\ \A i \in (p + 1)..q : InClass(Ch(s, i), class)}

InUserinfo == NegatedClass(Whitespace \cup {":", "@", "/"})   \* [^\s:@\/]
InLabel == Class(LowerAlpha \cup Digits \cup {"-"})          \* [a-z0-9-]
InTld == Class(LowerAlpha)                                   \* [a-z]
InDigit == Class(Digits)                                     \* \d
InNonSpace == NegatedClass(Whitespace)                       \* [^\s]
InQuery == NegatedClass(Whitespace \cup {"#"})               \* [^\s#]

\* (https?:\/\/)?
ReScheme(s, S) == S \cup ReLit(s, "http://", S) \cup ReLit(s, "https://", S)

\* ([^\s:@\/]+(:[^\s:@\/]*)?@)?
ReUserinfo(s, S) ==
    LET user == ReRep(s, InUserinfo, 1, Len(s), S)
        pass == user \cup ReRep(s, InUserinfo, 0, Len(s), ReLit(s, ":", user))
    IN  S \cup ReLit(s, "@", pass)

\* (?:[a-z0-9-]+\.)+ : one or more dotted labels
RECURSIVE ReLabels(_, _, _)
ReLabels(s, S, acc) ==
    LET step == ReLit(s, ".", ReRep(s, InLabel, 1, Len(s), S))
    IN  IF step \subseteq acc THEN acc ELSE ReLabels(s, step \ acc, acc \cup step)

\* ((?:[a-z0-9-]+\.)+[a-z]{2,})
ReHost(s, S) == ReRep(s, InTld, 2, Len(s), ReLabels(s, S, {}))

\* (:\d{2,5})?
RePort(s, S) == S \cup ReRep(s, InDigit, 2, 5, ReLit(s, ":", S))

\* (\/[^\s]*)?
RePath(s, S) == S \cup ReRep(s, InNonSpace, 0, Len(s), ReLit(s, "/", S))

\* (\?[^\s#]*)?
ReQuery(s, S) == S \cup ReRep(s, InQuery, 0, Len(s), ReLit(s, "?", S))

\* (#[^\s]*)?
ReFragment(s, S) == S \cup ReRep(s, InNonSpace, 0, Len(s), ReLit(s, "#", S))

\* FULL_URL_PATTERN.test(s); the i flag is a lower-casing of the subject.
FULL_URL_PATTERN(str) ==
    LET s == toLowerCase(str)
    IN  Len(s) \in
          ReFragment(s, ReQuery(s, RePath(s, RePort(s, ReHost(s,
              ReUserinfo(s, ReScheme(s, {0})))))))

\* Faulty variant: a URL without http:// or https:// is rejected
isValidUrlSchemeRequired(input) ==
    LET normalised == normaliseString(input)
    IN  /\ Len(normalised) >= 4
        /\ toLowerCase(SubSeq(normalised, 1, 4)) = "http"
        /\ FULL_URL_PATTERN(normalised)

isValidUrl(input) ==
    LET normalised == normaliseString(input)
    IN  IF Len(normalised) = 0 THEN FALSE ELSE FULL_URL_PATTERN(normalised)

(***************************************************************************)
(* The configuration (src/lib/components/urls/Url.svelte, lines 70-134)    *)
(*                                                                         *)
(* A document is a function from keys to IOC definitions. A definition     *)
(* read from storage may lack fields or hold ill-typed ones: `has` is the  *)
(* set of its fields that are present and well-typed (the other fields of  *)
(* the record are then placeholders). A flag whose value is not a boolean  *)
(* has vt = "other".                                                       *)
(***************************************************************************)

AllFields == {"name", "active", "flags", "urls", "version"}

Flag(name, value, subFlags) ==
    [name |-> name, vt |-> "bool", value |-> value, subFlags |-> subFlags]

IOCDefinition(name, active, flags, urls, version) ==
    [name |-> name, active |-> active, flags |-> flags, urls |-> urls,
     version |-> version, has |-> AllFields]

defaultPreferences ==
    [ip |-> IOCDefinition("IP", TRUE,
                << Flag("Copy IP", TRUE, << Flag("Sanitise IP", TRUE, <<>>) >>) >>,
                << "abuseipdb.com/check/{ip}",
                   "threatfox.abuse.ch/browse.php?search=ioc%3A{ip}",
                   "shodan.io/host/{ip}" >>,
                2),
     hash |-> IOCDefinition("Hash", TRUE,
                << Flag("Copy Hash", TRUE, <<>>) >>,
                << "virustotal.com/gui/file/{hash}",
                   "urlhaus.abuse.ch/browse.php?search={hash}" >>,
                2),
     url |-> IOCDefinition("URL", TRUE,
                << Flag("Copy URL", TRUE, << Flag("Sanitise URL", TRUE, <<>>) >>) >>,
                << "urlhaus.abuse.ch/browse.php?search={encodedUrl}",
                   "mxtoolbox.com/SuperTool.aspx?action=whois%3a{domain}",
                   "virustotal.com/gui/domain/{domain}" >>,
                2)]

EmptyObject == [k \in {} |-> {}]

\* What the host's storage holds when the process starts, and what another
\* context (or another device, through storage.sync) may write to it.
StaleDocument ==
    [hash |-> [defaultPreferences.hash EXCEPT
                  !.active = FALSE,
                  !.urls = << "not a url", "example.com/{hash}" >>],
     retired |-> defaultPreferences.ip]

InitialStorage == {EmptyObject, StaleDocument}

ForeignDocuments ==
    {[defaultPreferences EXCEPT !.ip.active = FALSE],
     [ip |-> [defaultPreferences.ip EXCEPT !.urls = << "shodan.io/host/{ip}", "bad url" >>,
                                           !.has = {"urls"}]]}

\* What storage may hold when the background script is handed a message:
\* nothing, the stale document, and a configuration the user made.
UserDocument ==
    [ip |-> [defaultPreferences.ip EXCEPT
                !.flags = << Flag("Copy IP", TRUE, << Flag("Sanitise IP", FALSE, <<>>) >>) >>,
                !.urls = << "https://lookup.com?ip={ip}", "shodan.io/host/{ip}" >>],
     hash |-> [defaultPreferences.hash EXCEPT
                !.flags = << Flag("Copy Hash", FALSE, <<>>) >>,
                !.urls = << >>],
     url |-> [defaultPreferences.url EXCEPT
                !.urls = << "lookup.com/?u={url}", "virustotal.com/gui/domain/{domain}" >>]]

ExecuteStorage == {EmptyObject, StaleDocument, UserDocument}

\* What the popup's user edits, and what is typed into a URL field.
EditKeys == {"hash"}
UrlSlots == {1}
UrlInputs == {"not a url", "Example.org/{hash}"}

\* What the reconciler may find in storage: for each default definition, the
\* flag lists, urls arrays and sets of well-typed fields a stored definition
\* of that key may have.
NotUrl == {"not a url", "bad url"}

RECURSIVE Toggled(_)
Toggled(flags) ==
    [i \in 1..Len(flags) |->
        [flags[i] EXCEPT !.value = ~@, !.subFlags = Toggled(@)]]

RECURSIVE IllTyped(_)
IllTyped(flags) ==
    [i \in 1..Len(flags) |->
        [flags[i] EXCEPT !.vt = "other", !.value = ~@, !.subFlags = IllTyped(@)]]

Legacy == [name |-> "Legacy", vt |-> "bool", value |-> TRUE, subFlags |-> <<>>]

RawFlags(flags) ==
    { <<>>,
      Toggled(flags),
      IllTyped(flags),
      \* a flag the defaults lack, at the top and below a known flag
      << Legacy >> \o Toggled(flags),
      [i \in 1..Len(flags) |-> [flags[i] EXCEPT !.subFlags = << Legacy >> \o Toggled(@)]],
      \* the sub-flags moved to the top, the known flag left without them
      flags[1].subFlags \o << [flags[1] EXCEPT !.value = ~@, !.subFlags = <<>>] >> }

RawUrls(urls) ==
    { urls,
      <<>>,
      << "not a url" >> \o urls \o << "bad url" >>,
      << "not a url", "bad url", urls[2], urls[1] >> }

RawDefinitions(d) ==
    {[d EXCEPT !.active = FALSE, !.flags = f, !.urls = u, !.has = h] :
        f \in RawFlags(d.flags), u \in RawUrls(d.urls),
        h \in {AllFields, {"flags", "urls"}, {"active", "version"}}}

RawDocuments ==
    InitialStorage
      \cup UNION {{[k \in {key} |-> def] : def \in RawDefinitions(defaultPreferences[key])} :
                     key \in {"ip", "hash"}}
      \cup {[k \in {"url", "retired"} |-> def] : def \in RawDefinitions(defaultPreferences.url)}

\* Live states handed to the saver: the default configuration with the URL
\* fields of one definition holding what the user left in them.
LiveStates ==
    UNION {{[defaultPreferences EXCEPT ![key].urls = u] :
               u \in RawUrls(defaultPreferences[key].urls)} :
           key \in {"ip", "hash"}}

UrlsOf(doc) == UNION {{doc[k].urls[i] : i \in 1..Len(doc[k].urls)} : k \in DOMAIN doc}

KnownUrls ==
    UrlInputs \cup NotUrl
      \cup UNION {UrlsOf(doc) : doc \in {defaultPreferences} \cup InitialStorage \cup ForeignDocuments}
      \cup UrlsOf(UserDocument)

ValidKnownUrls == {u \in KnownUrls : isValidUrl(u)}

(***************************************************************************)
(* forEachUrls (src/lib/IOC/ioc-utils.ts) and the callback both the loader *)
(* and the saver pass to it.                                               *)
(***************************************************************************)

\* isValidUrl(url), evaluated once for each URL string of the model
validUrl(url) == IF url \in KnownUrls THEN url \in ValidKnownUrls ELSE isValidUrl(url)

\* Faulty variant: invalid entries spliced out of the array while it is
\* iterated, so that the entry after a removed one is never looked at.
RECURSIVE keepValidUrlsSplicing(_)
keepValidUrlsSplicing(urls) ==
    IF urls = <<>> THEN <<>>
    ELSE IF validUrl(Head(urls)) THEN << Head(urls) >> \o keepValidUrlsSplicing(Tail(urls))
    ELSE IF Len(urls) = 1 THEN <<>>
    ELSE << urls[2] >> \o keepValidUrlsSplicing(Tail(Tail(urls)))

\* urls.filter(url => isValidUrl(url)); urls.length = 0; urls.push(...validUrls)
keepValidUrls(urls) == SelectSeq(urls, validUrl)

\* forEachUrls(obj, callback): the places of `obj` holding an array under a
\* key named "urls", each of which is handed to the callback.
forEachUrls(obj) == {k \in DOMAIN obj : "urls" \in obj[k].has}

\* forEachUrls(obj, urls => { ...keep the valid ones... }): `obj` after the
\* callback rewrote each array in place.
filterUrls(obj) ==
    [k \in DOMAIN obj |->
        IF k \in forEachUrls(obj)
        THEN [obj[k] EXCEPT !.urls = keepValidUrls(@)]
        ELSE obj[k]]

(***************************************************************************)
(* forEachUrls on any value. A value is a string, an array of values or an *)
(* object (a function from keys to values); the callback is the one the    *)
(* loader and the saver pass.                                              *)
(***************************************************************************)

Str(text) == [kind |-> "string", text |-> text]
Arr(items) == [kind |-> "array", items |-> items]
Obj(fields) == [kind |-> "object", fields |-> fields]

Texts(array) == [i \in 1..Len(array.items) |-> array.items[i].text]
Strs(texts) == Arr([i \in 1..Len(texts) |-> Str(texts[i])])

\* the callback: the array after it was rewritten in place
callback(val) == Strs(keepValidUrls(Texts(val)))

\* Faulty variant: the values of an object are not traversed
traverseShallow(value) ==
    IF value.kind = "object"
    THEN Obj([key \in DOMAIN value.fields |->
                LET val == value.fields[key]
                IN  IF toLowerCase(key) = "urls" /\ val.kind = "array"
                    THEN callback(val) ELSE val])
    ELSE value

\* traverse(value): the value after the traversal
RECURSIVE traverse(_)
traverse(value) ==
    IF value.kind = "array"
    THEN Arr([i \in 1..Len(value.items) |-> traverse(value.items[i])])
    ELSE IF value.kind = "object"
    THEN Obj([key \in DOMAIN value.fields |->
                LET val == value.fields[key]
                IN  IF toLowerCase(key) = "urls" /\ val.kind = "array"
                    THEN traverse(callback(val))
                    ELSE traverse(val)])
    ELSE value

\* Values handed to forEachUrls: a urls array of up to MaxUrls texts at the
\* top of an object, one and two objects down, in an object of an array,
\* under a key spelled URLs, under a key that is not urls, below a key urls
\* that holds an object, and in the objects of an array at the top.
MaxUrls == 3

UrlTexts == {"not a url", "example.com/{hash}", "shodan.io/host/{ip}"}

Trees ==
    UNION {LET U == Strs(texts)
           IN  { Obj([urls |-> U]),
                 Obj([hash |-> Obj([name |-> Str("Hash"), urls |-> U])]),
                 Obj([nested |-> Obj([deeper |-> Obj([urls |-> U])])]),
                 Obj([list |-> Arr(<< Obj([k \in {"URLs"} |-> U]), Str("not a url") >>)]),
                 Obj([links |-> U]),
                 Obj([urls |-> Obj([urls |-> U])]),
                 Arr(<< Obj([urls |-> U]), Obj([urls |-> Strs(<< "bad url" >>)]) >>) }
           : texts \in UNION {[1..n -> UrlTexts] : n \in 0..MaxUrls}}

\* A document of the configuration as a value: its definitions with the
\* fields forEachUrls looks at.
toValue(doc) ==
    Obj([k \in DOMAIN doc |->
           Obj([f \in doc[k].has \cap {"name", "urls"} |->
                  IF f = "urls" THEN Strs(doc[k].urls) ELSE Str(doc[k].name)])])

(***************************************************************************)
(* cleanObject (src/lib/storage/clean-object is not among the sources: it  *)
(* is modelled from the specification, section 4.2)                        *)
(***************************************************************************)

\* The first flag of `flags` named `name`, as a sequence of zero or one flag.
findFlag(flags, name) ==
    LET hits == {i \in 1..Len(flags) : flags[i].name = name}
    IN  IF hits = {} THEN <<>>
        ELSE << flags[CHOOSE i \in hits : \A j \in hits : i <= j] >>

RECURSIVE cleanFlags(_, _)
cleanFlags(rawFlags, defaultFlags) ==
    [i \in 1..Len(defaultFlags) |->
        LET d == defaultFlags[i]
            r == findFlag(rawFlags, d.name)
        IN  [name |-> d.name,
             vt |-> "bool",
             value |-> IF r # <<>> /\ r[1].vt = "bool" THEN r[1].value ELSE d.value,
             subFlags |-> cleanFlags(IF r # <<>> THEN r[1].subFlags ELSE <<>>, d.subFlags)]]

cleanDefinition(raw, d) ==
    [name |-> IF "name" \in raw.has THEN raw.name ELSE d.name,
     active |-> IF "active" \in raw.has THEN raw.active ELSE d.active,
     flags |-> cleanFlags(IF "flags" \in raw.has THEN raw.flags ELSE <<>>, d.flags),
     urls |-> IF "urls" \in raw.has THEN raw.urls ELSE d.urls,
     version |-> IF "version" \in raw.has THEN raw.version ELSE d.version,
     has |-> AllFields]

cleanObject(raw, defaults) ==
    [k \in DOMAIN defaults |->
        IF k \in DOMAIN raw THEN cleanDefinition(raw[k], defaults[k]) ELSE defaults[k]]

(***************************************************************************)
(* Bounds of the model and constants of the program                        *)
(***************************************************************************)

\* new StateManager(loadState, saveState, { delay: 500, maxWait: 1000 })
delay == 500
maxWait == 1000

MaxEdits == 2          \* UI edits of the live state
MaxWrites == 2         \* writes to storage made by another context
MaxSaves == 2          \* saver invocations in flight at once
MaxAge == 1500         \* how long the model lets an un-flushed call wait

Errors == {"QuotaExceeded", "StorageUnavailable"}

FineSteps == {100}
CoarseSteps == {500}

Min(a, b) == IF a < b THEN a ELSE b

(***************************************************************************)
(* State                                                                   *)
(***************************************************************************)

VARIABLES
    context,                  \* "popup" or "background": the script that runs this instance
    state,                    \* StateManager.state: key -> object id
    heap,                     \* object id -> IOC definition
    storageLoaded,            \* PreferencesState.storageLoaded
    autoSaveEffectRegistered, \* PreferencesState.autoSaveEffectRegistered
    listening,                \* the storage.onChanged listener is registered
    timeoutLeft,              \* debounce: ms until the trailing timer fires, -1 when not armed
    maxTimeoutLeft,           \* debounce: ms until the maxWait timer fires, -1 when not armed
    storage,                  \* the host's storage area
    loads,                    \* load() calls in flight, in the order they started
    saves,                    \* saver invocations in flight, in the order they started
    loaderOut,                \* the object the loader returned last: key -> object id
    \* observers: they record what happened and steer nothing
    age,                      \* ms since the first save() call not yet handed to the saver, -1 if none
    burst,                    \* the current burst of save() calls
    startedInWindow,          \* saver invocations started since the current debounce window opened
    settled,                  \* how the load() that finished last was settled
    loaderError,              \* the error the loader threw in the load() settled last, "none" if it returned
    unhandled,                \* errors that ended as unhandled promise rejections
    console,                  \* messages written with console.error
    lastWritten,              \* the document of the last successful storage set() of the saver
    lastSaveOk,               \* whether the saver invocation that started last succeeded
    uncovered,                \* the live state changed and save() has not been called since
    urlEdited,                \* a URL field was edited since the last load completed
    edits,                    \* UI edits made
    writes,                   \* writes to storage made by another context
    \* the IOC pipeline and the reconciler, called on their own
    call,                     \* the function called last, with its arguments and what it returned
    clipboard,                \* the texts handed to copyToClipboard, in order
    \* the background script handling a runtime message
    exec,                     \* the invocation of handleRuntimeMessage / executeIOCIntel
    tabs,                     \* the Browser.tabs.create calls made, in order, and how each settled
    activeTab,                \* the index of the active tab of the current window, if there is one
    copyStatus                \* how the copyToClipboard call settled: "none" when there was none

managerVars == <<state, heap, storageLoaded, autoSaveEffectRegistered, listening, context>>
debounceVars == <<timeoutLeft, maxTimeoutLeft>>
hostVars == <<storage, loads, saves, loaderOut>>
timeObs == <<age, burst, startedInWindow>>
loadObs == <<settled, loaderError, unhandled, console>>
saveObs == <<lastWritten, lastSaveOk>>
editObs == <<uncovered, urlEdited, edits, writes>>

engineVars == <<managerVars, debounceVars, hostVars, timeObs, loadObs, saveObs, editObs>>
browserVars == <<exec, tabs, activeTab, copyStatus>>
callVars == <<call, clipboard, browserVars>>

vars == <<engineVars, callVars>>

(***************************************************************************)
(* Objects                                                                 *)
(***************************************************************************)

ObjId(owner, n, key) == [owner |-> owner, n |-> n, key |-> key]

\* The property references of an object graph owned by (owner, n).
Refs(owner, n, keys) == [k \in keys |-> ObjId(owner, n, k)]

\* The heap after the definitions of `doc` are allocated for (owner, n).
Alloc(h, owner, n, doc) ==
    LET new == {ObjId(owner, n, k) : k \in DOMAIN doc}
    IN  [id \in DOMAIN h \cup new |-> IF id \in new THEN doc[id.key] ELSE h[id]]

\* The heap without the objects owned by (owner, n).
Release(h, owner, n) ==
    [id \in {j \in DOMAIN h : ~(j.owner = owner /\ j.n = n)} |-> h[id]]

\* The document the references denote.
Deref(h, refs) == [k \in DOMAIN refs |-> h[refs[k]]]

\* The heap after the objects behind `refs` are rewritten in place to `doc`.
Store(h, refs, doc) ==
    [id \in DOMAIN h |->
        IF \E k \in DOMAIN refs : refs[k] = id
        THEN doc[CHOOSE k \in DOMAIN refs : refs[k] = id]
        ELSE h[id]]

StateVal == Deref(heap, state)
LoaderVal == Deref(heap, loaderOut)

(***************************************************************************)
(* debounce (src/lib/utils/debounce is not among the sources: it is        *)
(* modelled from the specification, section 4.1: a call restarts a         *)
(* trailing timer of `delay` ms and, unless one already runs, starts a     *)
(* timer of `maxWait` ms; the function runs when either timer fires, and   *)
(* both are then cleared)                                                  *)
(***************************************************************************)

debounceCall(options) ==
    /\ timeoutLeft' = options.delay
    /\ maxTimeoutLeft' = IF maxTimeoutLeft = -1 THEN options.maxWait ELSE maxTimeoutLeft

debounceDue == timeoutLeft = 0 \/ maxTimeoutLeft = 0

debounceArmed == timeoutLeft # -1 \/ maxTimeoutLeft # -1

debounceClear == timeoutLeft' = -1 /\ maxTimeoutLeft' = -1

(***************************************************************************)
(* Observers of the save() calls and of the saver invocations              *)
(***************************************************************************)

NoBurst ==
    [gap |-> -1, span |-> 0, spanAtLast |-> 0, fires |-> 0, fireSpan |-> 0, idleStart |-> TRUE]

\* A save() call: it continues the burst when it follows the previous call
\* by less than delay, and starts a new burst otherwise.
BurstOnCall(b, idle) ==
    IF b.gap = -1 \/ b.gap >= delay
    THEN [gap |-> 0, span |-> 0, spanAtLast |-> 0, fires |-> 0, fireSpan |-> 0, idleStart |-> idle]
    ELSE [b EXCEPT !.gap = 0, !.spanAtLast = b.span]

BurstOnTick(b, d) ==
    IF b.gap = -1 THEN b
    ELSE [b EXCEPT !.gap = Min(@ + d, delay), !.span = Min(@ + d, maxWait + delay)]

BurstOnInvoke(b) ==
    IF b.gap = -1 THEN b
    ELSE [b EXCEPT !.fires = Min(@ + 1, 2), !.fireSpan = b.span]

(***************************************************************************)
(* StateManager (src/lib/storage/state-manager.svelte.ts)                  *)
(***************************************************************************)

\* Faulty variants of the options: a forced flush as early as the trailing
\* timer, and a forced flush that waits for delay past maxWait.
debounceOptionsEarlyFlush == [delay |-> delay, maxWait |-> delay, immediate |-> FALSE]

debounceOptionsLateFlush == [delay |-> delay, maxWait |-> maxWait + delay, immediate |-> FALSE]

\* constructor, lines 100-104, as called by PreferencesState
debounceOptions == [delay |-> delay, maxWait |-> maxWait, immediate |-> FALSE]

\* Faulty variant: the saver is not kept, and the debounced function returns
\* at its first line.
saveCallbackDropped == FALSE

\* constructor, line 99: PreferencesState passes a saver
hasSaveCallback == TRUE

\* Faulty variant: save() returns without calling the debounced function
\* while a saver invocation is in flight.
saveDroppedInFlight ==
    /\ IF saves = <<>>
       THEN /\ debounceCall(debounceOptions)
            /\ age' = IF age = -1 THEN 0 ELSE age
            /\ burst' = BurstOnCall(burst, ~debounceArmed)
            /\ startedInWindow' = IF debounceArmed THEN startedInWindow ELSE 0
       ELSE UNCHANGED <<timeoutLeft, maxTimeoutLeft, age, burst, startedInWindow>>
    /\ uncovered' = FALSE

\* save(): this.debouncedSave()
save ==
    /\ debounceCall(debounceOptions)
    /\ age' = IF age = -1 THEN 0 ELSE age
    /\ burst' = BurstOnCall(burst, ~debounceArmed)
    /\ startedInWindow' = IF debounceArmed THEN startedInWindow ELSE 0
    /\ uncovered' = FALSE

\* Faulty variant: a rejection of the debounced function is dropped
surfacedNever(messages, ok) == messages

\* debounce (src/lib/utils/debounce, not part of the sources at hand;
\* modelled after the specification) on the promise of the debounced
\* function, which rejects when the saver does (the function of lines
\* 108-120 rethrows): the failure is logged.
SaveFailedMessage == "Debounced function failed:"

surfaced(messages, ok) == IF ok THEN messages ELSE messages \cup {SaveFailedMessage}

\* Faulty variant: the saver is handed the live state itself.
stateSnapshotShared(h, st, n) == [heap |-> h, refs |-> st]

\* structuredClone($state.snapshot(this.state)), the clone owned by saver invocation n
stateSnapshot(h, st, n) ==
    [heap |-> Alloc(h, "snap", n, Deref(h, st)), refs |-> Refs("snap", n, DOMAIN st)]

\* Faulty variant: Object.assign(this.state, loadedData)
loadedReference(h, loadedData) == [heap |-> h, refs |-> loadedData]

\* load(): structuredClone(loadedData)
loadedClone(h, loadedData) ==
    [heap |-> Alloc(h, "live", 0, Deref(h, loadedData)),
     refs |-> Refs("live", 0, DOMAIN loadedData)]

\* Object.assign(target, source) on property references
objectAssign(target, source) ==
    [k \in DOMAIN target \cup DOMAIN source |->
        IF k \in DOMAIN source THEN source[k] ELSE target[k]]

\* Faulty variant: catch (error) {}
loadCatchSwallows(e) == [status |-> "fulfilled", err |-> "none"]

\* load(): catch (error) { throw error }
loadCatch(e) == [status |-> "rejected", err |-> e]

(***************************************************************************)
(* PreferencesState (src/lib/components/urls/Url.svelte, lines 150-289)    *)
(***************************************************************************)

\* constructor: `this.stateManager.load()` is called without await inside the
\* try block, so a rejection of its promise never reaches the catch block.
constructorAwaitsLoad == FALSE

LoadFailedMessage == "Failed to load from storage:"

\* Faulty variant: #loadState returning the filtered raw object, not `cleaned`
loadStateUncleaned(raw) == filterUrls(raw)

\* Faulty variant: #loadState reconciling the defaults, not `raw`
loadStateDefaults(raw) == cleanObject(defaultPreferences, defaultPreferences)

\* #loadState between `await get()` and `await setContextMenuItem(cleaned)`
loadState(raw) == cleanObject(filterUrls(raw), defaultPreferences)

\* Faulty variant: #saveState without the forEachUrls filter
saveStateUnfiltered(h, snapshot) ==
    [heap |-> h, set |-> cleanObject(Deref(h, snapshot), defaultPreferences)]

\* #saveState up to the call of set(): the snapshot is filtered in place and
\* the cleaned document is handed to storage.
saveState(h, snapshot) ==
    LET filtered == filterUrls(Deref(h, snapshot))
    IN  [heap |-> Store(h, snapshot, filtered),
         set |-> cleanObject(filtered, defaultPreferences)]

\* the $effect of initialiseAutoSave, run after the live state changed
effect(registered) ==
    IF registered /\ storageLoaded
    THEN save
    ELSE /\ UNCHANGED <<debounceVars, timeObs>>
         /\ uncovered' = TRUE

RemoveAt(seq, i) == SubSeq(seq, 1, i - 1) \o SubSeq(seq, i + 1, Len(seq))

FreeSlot == CHOOSE n \in 1..(Len(saves) + 1) : \A j \in 1..Len(saves) : saves[j].n # n

(***************************************************************************)
(* The state after `new PreferencesState()`: the live state is the empty   *)
(* object, the constructor's load() is in flight (its storage get() is     *)
(* issued) and storageLoaded is already true.                              *)
(***************************************************************************)

\* The state after the module of PreferencesState was evaluated in one of
\* `contexts`, with one of `documents` in storage and one of `actives` as the
\* active tab: the constructor has called load() and set storageLoaded.
Start(contexts, documents, actives) ==
    /\ context \in contexts
    /\ storage \in documents
    /\ activeTab \in actives
    /\ state = EmptyObject
    /\ heap = EmptyObject
    /\ storageLoaded = TRUE
    /\ autoSaveEffectRegistered = FALSE
    /\ listening = FALSE
    /\ timeoutLeft = -1
    /\ maxTimeoutLeft = -1
    /\ loads = << [caller |-> "constructor", phase |-> "get", doc |-> storage] >>
    /\ saves = <<>>
    /\ loaderOut = EmptyObject
    /\ age = -1
    /\ burst = NoBurst
    /\ startedInWindow = 0
    /\ settled = [caller |-> "none", status |-> "none", err |-> "none"]
    /\ loaderError = "none"
    /\ unhandled = {}
    /\ console = {}
    /\ lastWritten = EmptyObject
    /\ lastSaveOk = FALSE
    /\ uncovered = FALSE
    /\ urlEdited = FALSE
    /\ edits = 0
    /\ writes = 0
    /\ call = [fn |-> "none"]
    /\ clipboard = <<>>
    /\ exec = [pc |-> "idle"]
    /\ tabs = <<>>
    /\ copyStatus = "none"

Init == Start({"popup", "background"}, InitialStorage, {[defined |-> FALSE]})

(***************************************************************************)
(* The background script (src/unnamed/part_005) and the popup              *)
(* (src/src/popup/Popup.svelte)                                            *)
(***************************************************************************)

\* init(): Browser.storage.onChanged.addListener(...)
init ==
    /\ context = "background"
    /\ ~listening
    /\ listening' = TRUE
    /\ UNCHANGED <<state, heap, storageLoaded, autoSaveEffectRegistered, context>>
    /\ UNCHANGED <<debounceVars, hostVars, timeObs, loadObs, saveObs, editObs>>
    /\ UNCHANGED callVars

\* initialiseAutoSave(): registers the effect, which runs once at once
initialiseAutoSave ==
    /\ context = "popup"
    /\ ~autoSaveEffectRegistered
    /\ autoSaveEffectRegistered' = TRUE
    /\ effect(TRUE)
    /\ UNCHANGED <<state, heap, storageLoaded, listening, context>>
    /\ UNCHANGED <<hostVars, loadObs, saveObs>>
    /\ UNCHANGED <<urlEdited, edits, writes>>
    /\ UNCHANGED callVars

\* A bound control of the popup writes `def` over the definition of key k.
Edit(k, def, isUrl) ==
    /\ context = "popup"
    /\ autoSaveEffectRegistered
    /\ k \in EditKeys \cap DOMAIN state
    /\ edits < MaxEdits
    /\ def # heap[state[k]]
    /\ heap' = [heap EXCEPT ![state[k]] = def]
    /\ edits' = edits + 1
    /\ urlEdited' = (urlEdited \/ isUrl)
    /\ effect(autoSaveEffectRegistered)
    /\ UNCHANGED <<state, storageLoaded, autoSaveEffectRegistered, listening, context>>
    /\ UNCHANGED <<hostVars, loadObs, saveObs>>
    /\ UNCHANGED writes
    /\ UNCHANGED callVars

\* Popup.svelte: <Switch bind:checked={selectedTabState.active} />
Switch(k) ==
    /\ k \in DOMAIN state
    /\ Edit(k, [heap[state[k]] EXCEPT !.active = ~@], FALSE)

\* FlagCheckbox.svelte: bind:checked={flag.value}
FlagCheckbox(k, i) ==
    /\ k \in DOMAIN state
    /\ i \in 1..Len(heap[state[k]].flags)
    /\ Edit(k, [heap[state[k]] EXCEPT !.flags[i].value = ~@], FALSE)

\* Url.svelte: oninput sets the bound url to the text typed
oninput(k, i, text) ==
    /\ k \in DOMAIN state
    /\ i \in 1..Len(heap[state[k]].urls)
    /\ Edit(k, [heap[state[k]] EXCEPT !.urls[i] = text], TRUE)

(***************************************************************************)
(* Time and the debounced save                                             *)
(***************************************************************************)

\* d ms pass; a timer that is due fires before time moves on.
Tick(d) ==
    /\ timeoutLeft = -1 \/ timeoutLeft >= d
    /\ maxTimeoutLeft = -1 \/ maxTimeoutLeft >= d
    /\ age = -1 \/ age + d <= MaxAge
    /\ timeoutLeft' = IF timeoutLeft = -1 THEN -1 ELSE timeoutLeft - d
    /\ maxTimeoutLeft' = IF maxTimeoutLeft = -1 THEN -1 ELSE maxTimeoutLeft - d
    /\ age' = IF age = -1 THEN -1 ELSE age + d
    /\ burst' = BurstOnTick(burst, d)
    /\ UNCHANGED <<startedInWindow, managerVars, hostVars, loadObs, saveObs, editObs>>
    /\ UNCHANGED callVars

\* A timer of the debounce fires: the debounced function of the StateManager
\* constructor (lines 108-120) runs up to `await this.#saveCallback(...)`,
\* that is up to the saver's `await getStorageArea().set(cleaned)`; `ok` is
\* whether the host accepts the write.
DebouncedSave(ok) ==
    /\ debounceDue
    /\ Len(saves) < MaxSaves
    /\ debounceClear
    /\ IF hasSaveCallback
       THEN LET n == FreeSlot
                snap == stateSnapshot(heap, state, n)
                saver == saveState(snap.heap, snap.refs)
            IN  /\ heap' = saver.heap
                /\ saves' = Append(saves, [n |-> n, snap |-> snap.refs, fired |-> StateVal,
                                           doc |-> saver.set, ok |-> ok])
                /\ storage' = IF ok THEN saver.set ELSE storage
                /\ lastWritten' = IF ok THEN saver.set ELSE lastWritten
                /\ lastSaveOk' = ok
                /\ age' = -1
                /\ burst' = BurstOnInvoke(burst)
                /\ startedInWindow' = Min(startedInWindow + 1, 2)
       ELSE UNCHANGED <<heap, saves, storage, saveObs, timeObs>>
    /\ UNCHANGED <<state, storageLoaded, autoSaveEffectRegistered, listening, context>>
    /\ UNCHANGED <<loads, loaderOut, loadObs, editObs>>
    /\ UNCHANGED callVars

\* The set() of saver invocation i settles and the invocation ends; when it
\* rejects, so does the debounced function.
SaverSettles(i) ==
    /\ i \in 1..Len(saves)
    /\ saves' = RemoveAt(saves, i)
    /\ heap' = Release(heap, "snap", saves[i].n)
    /\ console' = surfaced(console, saves[i].ok)
    /\ UNCHANGED <<state, storageLoaded, autoSaveEffectRegistered, listening, context>>
    /\ UNCHANGED <<storage, loads, loaderOut>>
    /\ UNCHANGED <<debounceVars, timeObs, saveObs, editObs>>
    /\ UNCHANGED <<settled, loaderError, unhandled>>
    /\ UNCHANGED callVars

\* A client calls stateManager.save().
SaveCall ==
    /\ save
    /\ UNCHANGED <<managerVars, hostVars, loadObs, saveObs>>
    /\ UNCHANGED <<urlEdited, edits, writes>>
    /\ UNCHANGED callVars

(***************************************************************************)
(* Storage changes and load()                                              *)
(***************************************************************************)

\* Another context writes `doc` to storage and the host notifies the
\* listeners: the listener of init() calls stateManager.load(), whose loader
\* issues its storage get() at once.
StorageChanged(doc) ==
    /\ writes < MaxWrites
    /\ doc # storage
    /\ storage' = doc
    /\ writes' = writes + 1
    /\ listening
    /\ loads' = Append(loads, [caller |-> "listener", phase |-> "get", doc |-> doc])
    /\ UNCHANGED <<saves, loaderOut>>
    /\ UNCHANGED <<managerVars, debounceVars, timeObs, loadObs, saveObs>>
    /\ UNCHANGED <<uncovered, urlEdited, edits>>
    /\ UNCHANGED callVars

\* The get() of load i resolves: #loadState filters and cleans what it read
\* and awaits setContextMenuItem(cleaned).
LoadGetResolves(i) ==
    /\ i \in 1..Len(loads)
    /\ loads[i].phase = "get"
    /\ loads' = [loads EXCEPT ![i] = [caller |-> loads[i].caller, phase |-> "menu",
                                      doc |-> loadState(loads[i].doc)]]
    /\ UNCHANGED <<storage, saves, loaderOut>>
    /\ UNCHANGED <<managerVars, debounceVars, timeObs, loadObs, saveObs, editObs>>
    /\ UNCHANGED callVars

\* The get() of load i rejects with e: the loader rejects, load() rethrows,
\* and the promise of load() is rejected. Neither the constructor nor the
\* storage listener awaits or handles that promise.
LoadGetRejects(i, e) ==
    /\ i \in 1..Len(loads)
    /\ loads[i].phase = "get"
    /\ loaderError' = e
    /\ loads' = RemoveAt(loads, i)
    /\ LET result == loadCatch(e)
       IN  /\ settled' = [caller |-> loads[i].caller, status |-> result.status, err |-> result.err]
           /\ IF result.status # "rejected"
              THEN UNCHANGED <<unhandled, console>>
              ELSE IF loads[i].caller = "getState"
                   THEN UNCHANGED <<unhandled, console>>
                   ELSE IF loads[i].caller = "constructor" /\ constructorAwaitsLoad
                   THEN /\ console' = console \cup {LoadFailedMessage}
                        /\ UNCHANGED unhandled
                   ELSE /\ unhandled' = unhandled \cup {result.err}
                        /\ UNCHANGED console
    /\ UNCHANGED <<storage, saves, loaderOut>>
    /\ UNCHANGED <<managerVars, debounceVars, timeObs, saveObs, editObs>>
    /\ UNCHANGED callVars

\* setContextMenuItem of load i returns (it swallows its own errors): the
\* loader returns `cleaned` and load() assigns a clone of it to the state.
LoadCompletes(i) ==
    /\ i \in 1..Len(loads)
    /\ loads[i].phase = "menu"
    /\ LET cleaned == loads[i].doc
           loadedData == Refs("loader", 0, DOMAIN cleaned)
           clone == loadedClone(Alloc(heap, "loader", 0, cleaned), loadedData)
       IN  /\ heap' = clone.heap
           /\ state' = objectAssign(state, clone.refs)
           /\ loaderOut' = loadedData
    /\ loads' = RemoveAt(loads, i)
    /\ settled' = [caller |-> loads[i].caller, status |-> "fulfilled", err |-> "none"]
    /\ loaderError' = "none"
    /\ urlEdited' = FALSE
    /\ effect(autoSaveEffectRegistered)
    /\ UNCHANGED <<storageLoaded, autoSaveEffectRegistered, listening, context>>
    /\ UNCHANGED <<storage, saves, unhandled, console, saveObs>>
    /\ UNCHANGED <<edits, writes>>
    /\ UNCHANGED callVars

\* Whoever holds the object the loader returned changes it.
ExternalMutation(k) ==
    /\ k \in DOMAIN loaderOut
    /\ heap' = [heap EXCEPT ![loaderOut[k]].active = ~@]
    /\ UNCHANGED <<state, storageLoaded, autoSaveEffectRegistered, listening, context>>
    /\ UNCHANGED <<debounceVars, hostVars, timeObs, loadObs, saveObs, editObs>>
    /\ UNCHANGED callVars

(***************************************************************************)
(* The IOC pipeline (src/lib/IOC/ioc-utils.ts): the other patterns         *)
(***************************************************************************)

HexDigits == Digits \cup {"a", "b", "c", "d", "e", "f"}

InHex == Class(HexDigits)                                    \* [a-f0-9] under /i

\* [0-n] for a digit n
InZeroTo(n) == Class({SubSeq("0123456789", i, i) : i \in 1..(n + 1)})

\* (25[0-5]|2[0-4][0-9]|[01]?[0-9][0-9]?)
ReOctet(s, S) ==
    ReRep(s, InZeroTo(5), 1, 1, ReLit(s, "25", S))
      \cup ReRep(s, InDigit, 1, 1, ReRep(s, InZeroTo(4), 1, 1, ReLit(s, "2", S)))
      \cup ReRep(s, InDigit, 1, 2, ReRep(s, InZeroTo(1), 0, 1, S))

\* IPV4_PATTERN.test(s): an octet, then three times a dot and an octet
IPV4_PATTERN(s) ==
    Len(s) \in ReOctet(s, ReLit(s, ".", ReOctet(s, ReLit(s, ".", ReOctet(s,
                  ReLit(s, ".", ReOctet(s, {0})))))))

\* ([a-f0-9]{1,4}:)
ReHexColon(s, S) == ReLit(s, ":", ReRep(s, InHex, 1, 4, S))

\* ([a-f0-9]{1,4}:){lo,hi}
RECURSIVE ReHexColons(_, _, _, _)
ReHexColons(s, lo, hi, S) ==
    (IF lo <= 0 THEN S ELSE {})
      \cup (IF hi > 0 /\ S # {} THEN ReHexColons(s, lo - 1, hi - 1, ReHexColon(s, S)) ELSE {})

\* (:[a-f0-9]{1,4})
ReColonHex(s, S) == ReRep(s, InHex, 1, 4, ReLit(s, ":", S))

\* (:[a-f0-9]{1,4}){lo,hi}
RECURSIVE ReColonHexes(_, _, _, _)
ReColonHexes(s, lo, hi, S) ==
    (IF lo <= 0 THEN S ELSE {})
      \cup (IF hi > 0 /\ S # {} THEN ReColonHexes(s, lo - 1, hi - 1, ReColonHex(s, S)) ELSE {})

\* (:[a-f0-9]{0,4}){lo,hi}
RECURSIVE ReColonZone(_, _, _, _)
ReColonZone(s, lo, hi, S) ==
    (IF lo <= 0 THEN S ELSE {})
      \cup (IF hi > 0 /\ S # {}
            THEN ReColonZone(s, lo - 1, hi - 1, ReRep(s, InHex, 0, 4, ReLit(s, ":", S)))
            ELSE {})

\* (25[0-5]|(2[0-4]|1{0,1}[0-9]){0,1}[0-9])
ReOctet6(s, S) ==
    LET tens == ReRep(s, InZeroTo(4), 1, 1, ReLit(s, "2", S))
                  \cup ReRep(s, InDigit, 1, 1, ReRep(s, Class({"1"}), 0, 1, S))
    IN  ReRep(s, InZeroTo(5), 1, 1, ReLit(s, "25", S))
          \cup ReRep(s, InDigit, 1, 1, S \cup tens)

\* ((25[0-5]|...)\.){3,3}(25[0-5]|...)
ReDotted6(s, S) ==
    ReOctet6(s, ReLit(s, ".", ReOctet6(s, ReLit(s, ".", ReOctet6(s,
        ReLit(s, ".", ReOctet6(s, S)))))))

\* (ffff(:0{1,4}){0,1}:){0,1}
ReMapped(s, S) ==
    LET ffff == ReLit(s, "ffff", S)
        zero == ffff \cup ReRep(s, InZeroTo(0), 1, 4, ReLit(s, ":", ffff))
    IN  S \cup ReLit(s, ":", zero)

\* IPV6_PATTERN.test(str): the alternatives in the order of the pattern; the
\* i flag is a lower-casing of the subject.
IPV6_PATTERN(str) ==
    LET s == toLowerCase(str)
        start == {0}
    IN  Len(s) \in
          ReRep(s, InHex, 1, 4, ReHexColons(s, 7, 7, start))
            \cup ReLit(s, ":", ReHexColons(s, 1, 7, start))
            \cup ReColonHex(s, ReHexColons(s, 1, 6, start))
            \cup ReColonHexes(s, 1, 2, ReHexColons(s, 1, 5, start))
            \cup ReColonHexes(s, 1, 3, ReHexColons(s, 1, 4, start))
            \cup ReColonHexes(s, 1, 4, ReHexColons(s, 1, 3, start))
            \cup ReColonHexes(s, 1, 5, ReHexColons(s, 1, 2, start))
            \cup ReColonHexes(s, 1, 6, ReHexColon(s, start))
            \cup (LET colon == ReLit(s, ":", start)
                  IN  ReColonHexes(s, 1, 7, colon) \cup ReLit(s, ":", colon))
            \cup ReRep(s, Class(Digits \cup LowerAlpha), 1, Len(s),
                       ReLit(s, "%", ReColonZone(s, 0, 4, ReLit(s, "fe80:", start))))
            \cup ReDotted6(s, ReMapped(s, ReLit(s, "::", start)))
            \cup ReDotted6(s, ReLit(s, ":", ReHexColons(s, 1, 4, start)))

\* HASH_PATTERN.test(str)
HASH_PATTERN(str) ==
    LET s == toLowerCase(str)
    IN  Len(s) \in ReRep(s, InHex, 32, 32, {0})
                     \cup ReRep(s, InHex, 40, 40, {0})
                     \cup ReRep(s, InHex, 64, 64, {0})

Null == "null"

\* Faulty variant: the patterns are tested on the string as given
detectIOCTypeRaw(string) ==
    IF Len(string) = 0 THEN Null
    ELSE IF IPV4_PATTERN(string) \/ IPV6_PATTERN(string) THEN "ip"
    ELSE IF HASH_PATTERN(string) THEN "hash"
    ELSE IF FULL_URL_PATTERN(string) THEN "url"
    ELSE Null

detectIOCType(string) ==
    LET normalised == normaliseString(string)
    IN  IF Len(normalised) = 0 THEN Null
        ELSE IF IPV4_PATTERN(normalised) \/ IPV6_PATTERN(normalised) THEN "ip"
        ELSE IF HASH_PATTERN(normalised) THEN "hash"
        ELSE IF FULL_URL_PATTERN(normalised) THEN "url"
        ELSE Null

\* What a call returns when it returns undefined, and when it returns a value
Undefined == [defined |-> FALSE]
Defined(value) == [defined |-> TRUE, value |-> value]

\* currentLevel?.find(f => f.name === name): the flag found, as a sequence of
\* zero or one flag
find(currentLevel, name) ==
    LET hits == {i \in 1..Len(currentLevel) : currentLevel[i].name = name}
    IN  IF hits = {} THEN <<>>
        ELSE << currentLevel[CHOOSE i \in hits : \A j \in hits : i <= j] >>

\* the loop of getFlagValue from the i-th name of the path on
RECURSIVE getFlagValueFrom(_, _, _)
getFlagValueFrom(currentLevel, path, i) ==
    IF i > Len(path) THEN Undefined
    ELSE LET name == path[i]
             found == find(currentLevel, name)
         IN  IF found = <<>> THEN Undefined
             ELSE IF name = path[Len(path)] THEN Defined(found[1].value)
             \* currentLevel = found.subFlags, which a flag may lack
             ELSE getFlagValueFrom(IF "subFlags" \in DOMAIN found[1]
                                   THEN found[1].subFlags ELSE <<>>,
                                   path, i + 1)

getFlagValue(flags, path) == getFlagValueFrom(flags, path, 1)

\* Flag trees and paths handed to getFlagValue: the default trees; a tree in
\* which a name occurs at two levels; one with two siblings of one name; one
\* whose flag has no subFlags. Paths are up to MaxPath names long.
MaxPath == 3

FlagTrees ==
    { defaultPreferences.ip.flags,
      Toggled(defaultPreferences.ip.flags),
      << Flag("Copy IP", TRUE,
              << Flag("Copy IP", FALSE, << Flag("Sanitise IP", TRUE, <<>>) >>),
                 Flag("Sanitise IP", FALSE, <<>>) >>) >>,
      << Flag("Legacy", TRUE, <<>>),
         Flag("Legacy", FALSE, << Flag("Copy IP", TRUE, <<>>) >>),
         Flag("Copy IP", FALSE, << Flag("Sanitise IP", TRUE, <<>>) >>) >>,
      << [name |-> "Copy IP", vt |-> "bool", value |-> TRUE] >> }

FlagPaths ==
    UNION {[1..n -> {"Copy IP", "Sanitise IP", "Legacy"}] : n \in 0..MaxPath}

\* string.replace(/c/g, by) for a one-character c
RECURSIVE replaceEvery(_, _, _)
replaceEvery(s, c, by) ==
    IF Len(s) = 0 THEN ""
    ELSE (IF Ch(s, 1) = c THEN by ELSE Ch(s, 1)) \o replaceEvery(SubSeq(s, 2, Len(s)), c, by)

\* url.replace(/\./g, '[.]')
sanitiseURL(url) == replaceEvery(url, ".", "[.]")

\* String.prototype.lastIndexOf(c) and indexOf(pattern): positions from 0,
\* -1 when there is none
lastIndexOf(s, c) ==
    LET hits == {i \in 1..Len(s) : Ch(s, i) = c}
    IN  IF hits = {} THEN -1 ELSE (CHOOSE i \in hits : \A j \in hits : j <= i) - 1

indexOf(s, pattern) ==
    LET hits == {i \in 1..(Len(s) - Len(pattern) + 1) :
                    SubSeq(s, i, i + Len(pattern) - 1) = pattern}
    IN  IF hits = {} THEN -1 ELSE (CHOOSE i \in hits : \A j \in hits : i <= j) - 1

\* String.prototype.slice(from, to)
slice(s, from, to) == SubSeq(s, from + 1, to)

\* The replacement text of string.replace(pattern, by): in `by`, "$$" stands
\* for "$", "$&" for the matched text and "$'" for what follows the match
\* (the texts of the model hold no backquote, which after "$" stands for
\* what precedes the match).
RECURSIVE getSubstitution(_, _, _)
getSubstitution(by, matched, following) ==
    IF Len(by) = 0 THEN ""
    ELSE IF Ch(by, 1) = "$" /\ Len(by) >= 2 /\ Ch(by, 2) \in {"$", "&", "'"}
    THEN (CASE Ch(by, 2) = "$" -> "$"
            [] Ch(by, 2) = "&" -> matched
            [] Ch(by, 2) = "'" -> following)
           \o getSubstitution(SubSeq(by, 3, Len(by)), matched, following)
    ELSE Ch(by, 1) \o getSubstitution(SubSeq(by, 2, Len(by)), matched, following)

\* string.replace(pattern, by) for a string pattern: the first occurrence
replaceFirst(s, pattern, by) ==
    LET at == indexOf(s, pattern)
        following == slice(s, at + Len(pattern), Len(s))
    IN  IF at = -1 THEN s
        ELSE slice(s, 0, at) \o getSubstitution(by, pattern, following) \o following

\* Faulty variant: the first '.' or ':' is bracketed
sanitiseIPFirst(ip) ==
    LET firstDot == indexOf(ip, ".")
        firstColon == indexOf(ip, ":")
    IN  IF firstDot > firstColon
        THEN slice(ip, 0, firstDot) \o "[.]" \o slice(ip, firstDot + 1, Len(ip))
        ELSE IF firstColon > -1
        THEN slice(ip, 0, firstColon) \o "[:]" \o slice(ip, firstColon + 1, Len(ip))
        ELSE ip

sanitiseIP(ip) ==
    LET lastDot == lastIndexOf(ip, ".")
        lastColon == lastIndexOf(ip, ":")
    IN  IF lastDot > lastColon
        THEN slice(ip, 0, lastDot) \o "[.]" \o slice(ip, lastDot + 1, Len(ip))
        ELSE IF lastColon > -1
        THEN slice(ip, 0, lastColon) \o "[:]" \o slice(ip, lastColon + 1, Len(ip))
        ELSE ip

\* Faulty variant: the scheme is looked for as written, in lower case
normaliseUrlCaseSensitive(input) ==
    IF ReLit(input, "http://", {0}) \cup ReLit(input, "https://", {0}) = {}
    THEN "https://" \o input
    ELSE input

\* normaliseUrl(input): https:// is put before an input on which
\* /^https?:\/\//i.test(input) fails
normaliseUrl(input) ==
    LET s == toLowerCase(input)
    IN  IF ReLit(s, "http://", {0}) \cup ReLit(s, "https://", {0}) = {}
        THEN "https://" \o input
        ELSE input

\* a ?? b on what getFlagValue returned, and its truthiness in `if (a)`
orElse(a, b) == IF a.defined THEN a.value ELSE b
truthy(a) == a.defined /\ a.value

\* Faulty variant: the sanitise flag alone makes the IOC be copied
handleCopyToClipboardOnSanitise(ioc, flags) ==
    LET iocType == detectIOCType(ioc)
        shouldCopy ==
            CASE iocType = "ip" -> orElse(getFlagValue(flags, << "Copy IP" >>), FALSE)
              [] iocType = "hash" -> orElse(getFlagValue(flags, << "Copy Hash" >>), FALSE)
              [] iocType = "url" -> orElse(getFlagValue(flags, << "Copy URL" >>), FALSE)
              [] OTHER -> FALSE
        shouldSanitise ==
            CASE iocType = "ip" ->
                    orElse(getFlagValue(flags, << "Copy IP", "Sanitise IP" >>), FALSE)
              [] iocType = "url" ->
                    orElse(getFlagValue(flags, << "Copy URL", "Sanitise URL" >>), FALSE)
              [] OTHER -> FALSE
        toCopy == IF shouldSanitise
                  THEN (IF iocType = "ip" THEN sanitiseIP(ioc) ELSE sanitiseURL(ioc))
                  ELSE ioc
    IN  IF iocType = Null \/ ~(shouldCopy \/ shouldSanitise) THEN <<>> ELSE << toCopy >>

\* handleCopyToClipboard(ioc, flags): the texts it hands to copyToClipboard
handleCopyToClipboard(ioc, flags) ==
    LET iocType == detectIOCType(ioc)
        shouldCopy ==
            CASE iocType = "ip" -> orElse(getFlagValue(flags, << "Copy IP" >>), FALSE)
              [] iocType = "hash" -> orElse(getFlagValue(flags, << "Copy Hash" >>), FALSE)
              [] iocType = "url" -> orElse(getFlagValue(flags, << "Copy URL" >>), FALSE)
              [] OTHER -> FALSE
        shouldSanitise ==
            CASE iocType = "ip" ->
                    orElse(getFlagValue(flags, << "Copy IP", "Sanitise IP" >>), FALSE)
              [] iocType = "url" ->
                    orElse(getFlagValue(flags, << "Copy URL", "Sanitise URL" >>), FALSE)
              [] OTHER -> FALSE
        toCopy == IF shouldSanitise
                  THEN (IF iocType = "ip" THEN sanitiseIP(ioc) ELSE sanitiseURL(ioc))
                  ELSE ioc
    IN  IF iocType = Null \/ ~shouldCopy THEN <<>> ELSE << toCopy >>

\* encodeURIComponent on one ASCII character, and on a string
encodeURIComponentChar(c) ==
    IF toLowerCaseChar(c) \in LowerAlpha \cup Digits
                               \cup {"-", "_", ".", "!", "~", "*", "'", "(", ")"}
    THEN c
    ELSE CASE c = " " -> "%20" [] c = "\"" -> "%22" [] c = "#" -> "%23"
           [] c = "$" -> "%24" [] c = "%" -> "%25" [] c = "&" -> "%26"
           [] c = "+" -> "%2B" [] c = "," -> "%2C" [] c = "/" -> "%2F"
           [] c = ":" -> "%3A" [] c = ";" -> "%3B" [] c = "<" -> "%3C"
           [] c = "=" -> "%3D" [] c = ">" -> "%3E" [] c = "?" -> "%3F"
           [] c = "@" -> "%40" [] c = "[" -> "%5B" [] c = "\\" -> "%5C"
           [] c = "]" -> "%5D" [] c = "^" -> "%5E"
           [] c = "{" -> "%7B" [] c = "|" -> "%7C" [] c = "}" -> "%7D"
           [] c = "\t" -> "%09" [] c = "\n" -> "%0A" [] c = "\r" -> "%0D"

RECURSIVE encodeURIComponent(_)
encodeURIComponent(s) ==
    IF Len(s) = 0 THEN ""
    ELSE encodeURIComponentChar(Ch(s, 1)) \o encodeURIComponent(SubSeq(s, 2, Len(s)))

\* The number a string of digits denotes
RECURSIVE toNumber(_)
toNumber(digits) ==
    IF Len(digits) = 0 THEN 0
    ELSE 10 * toNumber(SubSeq(digits, 1, Len(digits) - 1))
           + indexOf("0123456789", Ch(digits, Len(digits)))

\* new URL(href).hostname for an href that begins with http:// or https://
\* and whose host does not end in a number: the authority ends at the first
\* '/', '?', '#' or backslash, the credentials at its last '@', the host at the
\* first ':' after them. The constructor throws on an empty host, on a host
\* with a forbidden character and on a port that is no number up to 65535.
URL(href) ==
    LET rest == slice(href, indexOf(href, "://") + 3, Len(href))
        ends == {i \in 1..Len(rest) : Ch(rest, i) \in {"/", "?", "#", "\\"}}
        authority == IF ends = {} THEN rest
                     ELSE slice(rest, 0, (CHOOSE i \in ends : \A j \in ends : i <= j) - 1)
        at == lastIndexOf(authority, "@")
        hostport == slice(authority, at + 1, Len(authority))
        colon == indexOf(hostport, ":")
        host == IF colon = -1 THEN hostport ELSE slice(hostport, 0, colon)
        port == IF colon = -1 THEN "" ELSE slice(hostport, colon + 1, Len(hostport))
    IN  IF /\ Len(host) > 0
           /\ \A i \in 1..Len(host) :
                 Ch(host, i) \notin Whitespace \cup {"#", "/", ":", "<", ">", "?", "@",
                                                    "[", "\\", "]", "^", "|", "%"}
           /\ \A i \in 1..Len(port) : Ch(port, i) \in Digits
           /\ toNumber(port) <= 65535
        THEN [threw |-> FALSE, hostname |-> toLowerCase(host)]
        ELSE [threw |-> TRUE]

\* Browser.tabs.create({ url, index, active: false })
Tab(url, index) == [url |-> url, index |-> index, active |-> FALSE]

\* processUrlTemplate(templateUrl, ioc): the string it returns, or that it
\* threw (new URL(normalisedUrl) throws)
processUrlTemplate(templateUrl, ioc) ==
    LET iocType == detectIOCType(ioc)
    IN  CASE iocType = "ip" ->
               [threw |-> FALSE,
                value |-> normaliseUrl(replaceFirst(templateUrl, "{ip}", ioc))]
          [] iocType = "hash" ->
               [threw |-> FALSE,
                value |-> normaliseUrl(replaceFirst(templateUrl, "{hash}", ioc))]
          [] iocType = "url" ->
               LET normalisedUrl == normaliseUrl(ioc)
                   urlObject == URL(normalisedUrl)
               IN  IF urlObject.threw THEN [threw |-> TRUE]
                   ELSE [threw |-> FALSE,
                         value |-> normaliseUrl(
                                     replaceFirst(
                                       replaceFirst(
                                         replaceFirst(templateUrl, "{url}", normalisedUrl),
                                         "{encodedUrl}", encodeURIComponent(normalisedUrl)),
                                       "{domain}", urlObject.hostname))]
          [] OTHER -> [threw |-> FALSE, value |-> normaliseUrl(templateUrl)]

\* executeIOCIntel(IOCType, normalisedIOC, flags, url, tabIndex), the variant
\* of src/lib/IOC/execute-IOC-Intel.ts that is given the type: the texts it
\* hands to copyToClipboard, its local toCopy, the tabs it creates and
\* whether it threw.
executeIOCIntelOfType(IOCType, normalisedIOC, flags, url, tabIndex) ==
    LET nothing == [copied |-> <<>>, toCopy |-> Null, tabs |-> <<>>, threw |-> FALSE]
    IN  CASE IOCType = "ip" ->
               IF ~IPV4_PATTERN(normalisedIOC) /\ ~IPV6_PATTERN(normalisedIOC) THEN nothing
               ELSE LET copy == truthy(getFlagValue(flags, << "Copy IP" >>))
                        toCopy == IF truthy(getFlagValue(flags, << "Copy IP", "Sanitise IP" >>))
                                  THEN sanitiseIP(normalisedIOC) ELSE normalisedIOC
                    IN  [copied |-> IF copy THEN << toCopy >> ELSE <<>>,
                         toCopy |-> IF copy THEN toCopy ELSE Null,
                         tabs |-> << Tab(normaliseUrl(replaceFirst(url, "{ip}", normalisedIOC)),
                                         tabIndex) >>,
                         threw |-> FALSE]
          [] IOCType = "hash" ->
               IF ~HASH_PATTERN(normalisedIOC) THEN nothing
               ELSE LET copy == truthy(getFlagValue(flags, << "Copy Hash" >>))
                    IN  [copied |-> IF copy THEN << normalisedIOC >> ELSE <<>>,
                         toCopy |-> IF copy THEN normalisedIOC ELSE Null,
                         tabs |-> << Tab(normaliseUrl(replaceFirst(url, "{hash}", normalisedIOC)),
                                         tabIndex) >>,
                         threw |-> FALSE]
          [] IOCType = "url" ->
               LET normalisedUrl == normaliseUrl(normalisedIOC)
               IN  IF ~FULL_URL_PATTERN(normalisedUrl) THEN nothing
                   ELSE LET copy == truthy(getFlagValue(flags, << "Copy URL" >>))
                            toCopy ==
                                IF truthy(getFlagValue(flags, << "Copy URL", "Sanitise URL" >>))
                                THEN replaceEvery(normalisedIOC, ".", "[.]")
                                ELSE normalisedIOC
                            parsed == URL(normalisedUrl)
                        IN  [copied |-> IF copy THEN << normalisedUrl >> ELSE <<>>,
                             toCopy |-> IF copy THEN toCopy ELSE Null,
                             tabs |->
                                 IF parsed.threw THEN <<>>
                                 ELSE << Tab(normaliseUrl(
                                               replaceFirst(
                                                 replaceFirst(
                                                   replaceFirst(url, "{url}", normalisedUrl),
                                                   "{encodedUrl}",
                                                   encodeURIComponent(normalisedUrl)),
                                                 "{domain}", parsed.hostname)),
                                             tabIndex) >>,
                             threw |-> parsed.threw]
          [] OTHER -> nothing

\* Flag lists handed to the pipeline: none; for each type its copy flag with
\* its sanitise sub-flag, each either true or false; and the copy flag true
\* without a sub-flag. (For hashes the defaults have no sub-flag.)
CopyFlagName == [ip |-> "Copy IP", hash |-> "Copy Hash", url |-> "Copy URL"]
SanitiseFlagName == [ip |-> "Sanitise IP", hash |-> "Sanitise Hash", url |-> "Sanitise URL"]

CopyFlagSettings ==
    { <<>> }
      \cup {<< Flag(CopyFlagName[t], TRUE, <<>>) >> : t \in DOMAIN CopyFlagName}
      \cup {<< Flag(CopyFlagName[t], c, << Flag(SanitiseFlagName[t], z, <<>>) >>) >> :
               t \in DOMAIN CopyFlagName, c \in BOOLEAN, z \in BOOLEAN}

\* Normalised IOCs handed to the pipeline, and the templates of a type
PipelineTexts ==
    {"192.168.1.1", "2001:db8::1", "d41d8cd98f00b204e9800998ecf8427e",
     "example.com", "https://example.com/path?q=1#frag", "user:pw@example.co.uk/x",
     "example.com:99999", "not a url"}

Templates(IOCType) ==
    {defaultPreferences[IOCType].urls[i] : i \in 1..2}

\* Templates and IOCs handed to processUrlTemplate: the templates of the
\* defaults and templates with and without a scheme, with each placeholder,
\* with none and with one twice; the IOCs of the pipeline, an address
\* between white space, and URLs with a '$' in their query.
TemplateTexts ==
    UNION {{defaultPreferences[k].urls[i] : i \in 1..Len(defaultPreferences[k].urls)} :
              k \in DOMAIN defaultPreferences}
      \cup {"https://lookup.com?ip={ip}", "HTTP://lookup.com/{hash}", "lookup.com",
            "lookup.com/{domain}?u={url}&e={encodedUrl}", "lookup.com/?u={url}",
            "lookup.com/{ip}/{ip}"}

TemplateIOCs ==
    PipelineTexts \cup {" 192.168.1.1\t", "example.com/?q=$&", "example.com/?price=$$5"}

\* Texts handed to normaliseUrl: those of the pipeline, the templates, and
\* texts with a scheme in either letter case, with half a scheme, with
\* another scheme and with white space before the scheme.
SchemeTexts ==
    {"http://", "https://", "HTTPS://Example.com", "hTtP://example.com/A", "http:/example.com",
     "https:example.com", "ftp://example.com", "hxxp://example.com", " https://example.com",
     "httpss://example.com", "//example.com", "example.com/?next=http://x.org", "h", ""}

\* Texts handed to the pipeline: IPv4 and IPv6 addresses, hashes of 32, 40
\* and 64 hexadecimal digits, URLs, and texts that are none of these; each
\* as it is, between white space, defanged and between brackets.
IPv4Texts == {"192.168.1.1", "8.8.8.8", "255.255.255.255", "0.0.0.0", "10.0.0.254"}

IPv6Texts ==
    {"2001:db8::1", "::1", "::", "1::", "fe80::1%eth0", "::ffff:192.168.1.1",
     "64:ff9b::192.0.2.33", "2001:0db8:85a3:0000:0000:8a2e:0370:7334",
     "1:2:3:4:5:6:7:8", "2001:DB8::A"}

HashTexts ==
    {"d41d8cd98f00b204e9800998ecf8427e",
     "D41D8CD98F00B204E9800998ECF8427E",
     "da39a3ee5e6b4b0d3255bfef95601890afd80709",
     "e3b0c44298fc1c149afbf4c8996fb92427ae41e4649b934ca495991b7852b855"}

WebTexts ==
    {"https://example.com/path?q=1#frag", "example.com", "example.com:99999",
     "HTTP://Evil.Example.ORG:8080/a.b", "user:pw@example.co.uk/x"}

OtherTexts ==
    {"", "   ", "not a url", "256.1.1.1", "1.2.3", "2001:db8:::1", "12345::1",
     "d41d8cd98f00b204e9800998ecf8427", "g41d8cd98f00b204e9800998ecf8427e",
     "d41d8cd98f00b204e9800998ecf8427e0", "localhost", "http://"}

Decorated(texts) ==
    UNION {{t, "  " \o t \o "\t", sanitiseURL(t), "[" \o t \o "]"} : t \in texts}

IOCTexts == Decorated(IPv4Texts \cup IPv6Texts \cup HashTexts \cup WebTexts \cup OtherTexts)

(***************************************************************************)
(* The background script handling a runtime message                        *)
(* (src/unnamed/part_005, src/lib/IOC/execute-IOC-Intel.ts lines 187-220,  *)
(* src/lib/browser/browser-utils.ts)                                       *)
(***************************************************************************)

MaxTabIndex == 2

\* What Browser.tabs.query({ active: true, currentWindow: true }) may find
ActiveTabs == {Undefined, Defined(0), Defined(MaxTabIndex)}

\* Messages: a value that is no object, null, an array, objects without the
\* action, without the IOC or with an IOC that is no string, and requests.
NullValue == [kind |-> "null"]
Number(n) == [kind |-> "number", number |-> n]

MessageIOCs ==
    {"192.168.1.1", "  2001:DB8::1 ", "D41D8CD98F00B204E9800998ECF8427E",
     "example[.]com", "example.com:99999", "https://example.com/path?q=1#frag",
     "not a url", ""}

Requests == {Obj([action |-> Str("executeIOCIntel"), IOC |-> Str(text)]) : text \in MessageIOCs}

OtherMessages ==
    {NullValue, Str("executeIOCIntel"), Number(7), Arr(<<>>), Obj(EmptyObject),
     Obj([action |-> Str("executeIOCIntel")]),
     Obj([action |-> Str("executeIOCIntel"), IOC |-> Number(8)]),
     Obj([action |-> Str("executeIOCIntel"), IOC |-> NullValue]),
     Obj([action |-> Str("open"), IOC |-> Str("192.168.1.1")]),
     Obj([IOC |-> Str("192.168.1.1")])}

Messages == Requests \cup OtherMessages

\* typeof value
typeof(value) ==
    IF value.kind \in {"null", "array", "object"} THEN "object" ELSE value.kind

\* msg[key] for an object or an array msg
property(msg, key) ==
    IF msg.kind = "object" /\ key \in DOMAIN msg.fields THEN Defined(msg.fields[key])
    ELSE Undefined

\* Faulty variant: the action of the message is not looked at
isRequestByIOC(message) ==
    IF typeof(message) # "object" \/ message = NullValue THEN FALSE
    ELSE LET IOC == property(message, "IOC")
         IN  IOC.defined /\ typeof(IOC.value) = "string"

\* handleRuntimeMessage(message), lines 19-24: whether the message is a request
isRequest(message) ==
    IF typeof(message) # "object" \/ message = NullValue THEN FALSE
    ELSE LET action == property(message, "action")
             IOC == property(message, "IOC")
         IN  ~(\/ action # Defined(Str("executeIOCIntel"))
               \/ ~IOC.defined
               \/ typeof(IOC.value) # "string")

\* Faulty variant: the index of the active tab itself
getTabInsertionIndexOfActive(found) == IF found.defined THEN found.value ELSE 0

\* getTabInsertionIndex(), line 83, on what the query found
getTabInsertionIndex(found) == IF found.defined THEN found.value + 1 ELSE 0

\* createTab(url, index): the call of Browser.tabs.create it makes
createTab(url, index) == [request |-> Tab(url, index), status |-> "pending"]

\* Faulty variant: tabIndex++ is missing
forEachSameIndex(processed, tabIndex) ==
    LET thrown == {i \in 1..Len(processed) : processed[i].threw}
        last == IF thrown = {} THEN Len(processed)
                ELSE (CHOOSE i \in thrown : \A j \in thrown : i <= j) - 1
    IN  [tabs |-> [k \in 1..last |-> createTab(processed[k].value, tabIndex)],
         threw |-> thrown # {}]

\* urls.forEach(...) of executeIOCIntel (lines 209-213) on what
\* processUrlTemplate makes of each template: it ends at the first template
\* on which processUrlTemplate throws; template k is handed to createTab
\* with the index read, which each round increments.
forEach(processed, tabIndex) ==
    LET thrown == {i \in 1..Len(processed) : processed[i].threw}
        last == IF thrown = {} THEN Len(processed)
                ELSE (CHOOSE i \in thrown : \A j \in thrown : i <= j) - 1
    IN  [tabs |-> [k \in 1..last |-> createTab(processed[k].value, tabIndex + k - 1)],
         threw |-> thrown # {}]

ExecuteFailedMessage == "Error executing IOC intel:"

\* executeIOCIntel resolves to `value`
Resolved(e, value) == [e EXCEPT !.pc = "done", !.status = "fulfilled", !.value = value]

\* Faulty variant: catch (error) { throw error }
executeCatchRethrows(e) == [e EXCEPT !.pc = "done", !.status = "rejected"]

\* executeIOCIntel, lines 216-219: catch (error) { console.error(...); return false }
executeCatch(e) == Resolved(e, FALSE)

\* Faulty variant: a definition that is there is taken to be active
isValidIOCType(prefsState, iocType) == iocType \in DOMAIN prefsState

\* isValidAndActiveIOCType(iocType), lines 130-132, on the state getState() returned
isValidAndActiveIOCType(prefsState, iocType) ==
    iocType \in DOMAIN prefsState /\ prefsState[iocType].active

\* Faulty variant: getState() loads whatever the live state holds
alwaysLoads(st) == TRUE

\* getState(), line 211: Object.keys(this.stateManager.state).length === 0
hasNoKeys(st) == DOMAIN st = {}

\* executeIOCIntel from the return of the getState() of isValidAndActiveIOCType,
\* up to `await getTabInsertionIndex()` (lines 196-207); getState() returns
\* the live state, and the second getState() returns it without a load.
Validated(e) ==
    LET prefsState == StateVal
    IN  IF ~isValidAndActiveIOCType(prefsState, e.iocType)
        THEN /\ exec' = Resolved([e EXCEPT !.returned = state], FALSE)
             /\ UNCHANGED <<clipboard, copyStatus>>
        ELSE LET typePrefs == prefsState[e.iocType]
                 flags == IF "flags" \in typePrefs.has THEN typePrefs.flags ELSE <<>>
                 urls == IF "urls" \in typePrefs.has THEN typePrefs.urls ELSE <<>>
                 copied == handleCopyToClipboard(e.ioc, flags)
             IN  /\ exec' = [e EXCEPT !.pc = "query", !.urls = urls, !.returned = state]
                 /\ clipboard' = clipboard \o copied
                 /\ copyStatus' = IF copied = <<>> THEN copyStatus ELSE "pending"

\* The host delivers `message`: handleRuntimeMessage(message) runs, and for a
\* request executeIOCIntel(normalisedIOC) up to its first await that waits:
\* the load() of getState() when the live state has no keys, the query of
\* getTabInsertionIndex() otherwise.
HandleRuntimeMessage(message) ==
    /\ context = "background"
    /\ exec = [pc |-> "idle"]
    /\ LET e == [pc |-> "start", message |-> message, ioc |-> Null, iocType |-> Null,
                 urls |-> <<>>, batch |-> FALSE, found |-> Undefined, tabIndex |-> 0,
                 loaded |-> FALSE, returned |-> EmptyObject, status |-> "pending",
                 value |-> FALSE]
       IN  IF ~isRequest(message)
           THEN /\ exec' = Resolved(e, FALSE)
                /\ UNCHANGED <<loads, clipboard, copyStatus>>
           ELSE LET normalisedIOC == normaliseString(message.fields.IOC.text)
                    detected == detectIOCType(normalisedIOC)
                    started == [e EXCEPT !.ioc = normalisedIOC,
                                         !.iocType = IF detected = Null THEN "unknown"
                                                     ELSE detected]
                IN  IF hasNoKeys(state)
                    THEN /\ loads' = Append(loads, [caller |-> "getState", phase |-> "get",
                                                    doc |-> storage])
                         /\ exec' = [started EXCEPT !.pc = "getState", !.loaded = TRUE]
                         /\ UNCHANGED <<clipboard, copyStatus>>
                    ELSE /\ Validated(started)
                         /\ UNCHANGED loads
    /\ UNCHANGED <<managerVars, debounceVars, timeObs, loadObs, saveObs, editObs>>
    /\ UNCHANGED <<storage, saves, loaderOut>>
    /\ UNCHANGED <<call, tabs, activeTab>>

\* The load() that getState() awaits has settled
getStateSettled ==
    /\ exec.pc = "getState"
    /\ \A i \in 1..Len(loads) : loads[i].caller # "getState"

\* getState() continues after `await this.stateManager.load()` (lines
\* 212-215): it sets storageLoaded and returns the live state, or rejects
\* with the error of the load, which executeIOCIntel catches.
GetStateReturns ==
    /\ getStateSettled
    /\ IF settled.status = "rejected"
       THEN /\ exec' = executeCatch(exec)
            /\ console' = console \cup {ExecuteFailedMessage}
            /\ UNCHANGED <<storageLoaded, clipboard, copyStatus>>
       ELSE /\ storageLoaded' = TRUE
            /\ Validated(exec)
            /\ UNCHANGED console
    /\ UNCHANGED <<state, heap, autoSaveEffectRegistered, listening, context>>
    /\ UNCHANGED <<debounceVars, hostVars, timeObs, saveObs, editObs>>
    /\ UNCHANGED <<settled, loaderError, unhandled>>
    /\ UNCHANGED <<call, tabs, activeTab>>

\* executeIOCIntel from the return of getTabInsertionIndex() to its end
\* (lines 207-219)
batchDone(e, batch) ==
    /\ tabs' = tabs \o batch.tabs
    /\ exec' = IF batch.threw THEN executeCatch(e) ELSE Resolved(e, TRUE)
    /\ console' = IF batch.threw THEN console \cup {ExecuteFailedMessage} ELSE console

\* The query of getTabInsertionIndex() resolves with the active tab: the
\* templates are processed and their tabs created.
QueryResolves ==
    /\ exec.pc = "query"
    /\ batchDone([exec EXCEPT !.batch = TRUE, !.found = activeTab,
                              !.tabIndex = getTabInsertionIndex(activeTab)],
                 forEach([i \in 1..Len(exec.urls) |->
                             processUrlTemplate(exec.urls[i], exec.ioc)],
                         getTabInsertionIndex(activeTab)))
    /\ UNCHANGED <<managerVars, debounceVars, hostVars, timeObs, saveObs, editObs>>
    /\ UNCHANGED <<settled, loaderError, unhandled>>
    /\ UNCHANGED <<call, clipboard, activeTab, copyStatus>>

\* The query of getTabInsertionIndex() rejects
QueryRejects ==
    /\ exec.pc = "query"
    /\ exec' = executeCatch(exec)
    /\ console' = console \cup {ExecuteFailedMessage}
    /\ UNCHANGED <<managerVars, debounceVars, hostVars, timeObs, saveObs, editObs>>
    /\ UNCHANGED <<settled, loaderError, unhandled>>
    /\ UNCHANGED <<call, clipboard, tabs, activeTab, copyStatus>>

\* The host settles the oldest pending Browser.tabs.create: the tab is there,
\* or the promise createTab returned is rejected (nothing awaits it).
TabSettles(ok) ==
    /\ \E k \in 1..Len(tabs) :
          /\ tabs[k].status = "pending"
          /\ \A j \in 1..(k - 1) : tabs[j].status # "pending"
          /\ tabs' = [tabs EXCEPT ![k].status = IF ok THEN "created" ELSE "rejected"]
    /\ UNCHANGED <<engineVars, call, clipboard, exec, activeTab, copyStatus>>

\* copyToClipboard(text) settles (lines 124-136): without an active tab it
\* throws, otherwise the injected script writes the text or fails; nothing
\* awaits the promise.
CopySettles(ok) ==
    /\ copyStatus = "pending"
    /\ copyStatus' = IF activeTab.defined /\ ok THEN "written" ELSE "rejected"
    /\ UNCHANGED <<engineVars, call, clipboard, exec, tabs, activeTab>>

\* The user activates another tab, or a window without tabs the extension may query
ActivateTab(found) ==
    /\ found # activeTab
    /\ activeTab' = found
    /\ UNCHANGED <<engineVars, call, clipboard, exec, tabs, copyStatus>>

(***************************************************************************)
(* Functions called on their own: the loader and the saver on a document   *)
(* (with get() and set() of the host left out), forEachUrls on a value,    *)
(* and the functions of the IOC pipeline.                                  *)
(***************************************************************************)

NoCall == [fn |-> "none"]

\* #loadState on a storage holding `raw`
Reconcile(raw) ==
    /\ call = NoCall
    /\ call' = [fn |-> "loadState", arg |-> raw, result |-> loadState(raw)]
    /\ UNCHANGED <<engineVars, clipboard, browserVars>>

\* #saveState on a snapshot of the live state `doc`: the document it hands
\* to set()
Persist(doc) ==
    /\ call = NoCall
    /\ LET snapshot == Refs("snap", 1, DOMAIN doc)
           saver == saveState(Alloc(EmptyObject, "snap", 1, doc), snapshot)
       IN  call' = [fn |-> "saveState", arg |-> doc, result |-> saver.set]
    /\ UNCHANGED <<engineVars, clipboard, browserVars>>

\* forEachUrls(tree, callback) with the callback of the loader and the saver
FilterTree(tree) ==
    /\ call = NoCall
    /\ call' = [fn |-> "forEachUrls", arg |-> tree, result |-> traverse(tree)]
    /\ UNCHANGED <<engineVars, clipboard, browserVars>>

\* detectIOCType(string)
DetectIOCType(string) ==
    /\ call = NoCall
    /\ call' = [fn |-> "detectIOCType", arg |-> string, result |-> detectIOCType(string)]
    /\ UNCHANGED <<engineVars, clipboard, browserVars>>

\* getFlagValue(flags, path)
GetFlagValue(flags, path) ==
    /\ call = NoCall
    /\ call' = [fn |-> "getFlagValue", flags |-> flags, path |-> path,
                result |-> getFlagValue(flags, path)]
    /\ UNCHANGED <<engineVars, clipboard, browserVars>>

\* handleCopyToClipboard(ioc, flags)
HandleCopyToClipboard(ioc, flags) ==
    /\ call = NoCall
    /\ call' = [fn |-> "handleCopyToClipboard", ioc |-> ioc, flags |-> flags]
    /\ clipboard' = clipboard \o handleCopyToClipboard(ioc, flags)
    /\ UNCHANGED <<engineVars, browserVars>>

\* executeIOCIntel(IOCType, normalisedIOC, flags, url, tabIndex)
ExecuteIOCIntelOfType(IOCType, normalisedIOC, flags, url, tabIndex) ==
    /\ call = NoCall
    /\ LET done == executeIOCIntelOfType(IOCType, normalisedIOC, flags, url, tabIndex)
       IN  /\ call' = [fn |-> "executeIOCIntelOfType", IOCType |-> IOCType,
                       ioc |-> normalisedIOC, flags |-> flags, url |-> url,
                       toCopy |-> done.toCopy, tabs |-> done.tabs, threw |-> done.threw]
           /\ clipboard' = clipboard \o done.copied
    /\ UNCHANGED <<engineVars, browserVars>>

\* processUrlTemplate(templateUrl, ioc)
ProcessUrlTemplate(templateUrl, ioc) ==
    /\ call = NoCall
    /\ call' = [fn |-> "processUrlTemplate", templateUrl |-> templateUrl, ioc |-> ioc,
                result |-> processUrlTemplate(templateUrl, ioc)]
    /\ UNCHANGED <<engineVars, clipboard, browserVars>>

\* normaliseUrl(input), and normaliseUrl on what it returned
NormaliseUrl(input) ==
    /\ call = NoCall
    /\ call' = [fn |-> "normaliseUrl", arg |-> input, result |-> normaliseUrl(input),
                again |-> normaliseUrl(normaliseUrl(input))]
    /\ UNCHANGED <<engineVars, clipboard, browserVars>>

\* sanitiseIP(ip)
SanitiseIP(ip) ==
    /\ call = NoCall
    /\ call' = [fn |-> "sanitiseIP", arg |-> ip, result |-> sanitiseIP(ip)]
    /\ UNCHANGED <<engineVars, clipboard, browserVars>>

(***************************************************************************)
(* Specifications                                                          *)
(***************************************************************************)

\* The persistence engine, in steps of 500 ms.
Next ==
    \/ init
    \/ initialiseAutoSave
    \/ \E k \in EditKeys : Switch(k)
    \/ \E k \in EditKeys : FlagCheckbox(k, 1)
    \/ \E k \in EditKeys, i \in UrlSlots, text \in UrlInputs : oninput(k, i, text)
    \/ \E d \in CoarseSteps : debounceArmed /\ Tick(d)
    \/ \E ok \in BOOLEAN : DebouncedSave(ok)
    \/ \E i \in 1..Len(saves) : SaverSettles(i)
    \/ \E doc \in ForeignDocuments : StorageChanged(doc)
    \/ \E i \in 1..Len(loads) : LoadGetResolves(i)
    \/ \E i \in 1..Len(loads), e \in Errors : LoadGetRejects(i, e)
    \/ \E i \in 1..Len(loads) : LoadCompletes(i)
    \/ \E k \in EditKeys : ExternalMutation(k)

Spec == Init /\ [][Next]_vars

\* The debounce alone, in steps of 50 ms: save() is called at any time.
InitTimer == Init /\ context = "popup" /\ storage = EmptyObject

NextTimer ==
    \/ SaveCall
    \/ \E d \in FineSteps : Tick(d)
    \/ DebouncedSave(TRUE)
    \/ \E i \in 1..Len(saves) : SaverSettles(i)
    \/ \E i \in 1..Len(loads) : LoadGetResolves(i)
    \/ \E i \in 1..Len(loads) : LoadCompletes(i)

SpecTimer == InitTimer /\ [][NextTimer]_vars

\* The reconciliation alone: the loader and the saver applied to documents.
InitReconcile == Init /\ context = "background" /\ storage = EmptyObject

NextReconcile ==
    \/ \E raw \in RawDocuments : Reconcile(raw)
    \/ \E doc \in LiveStates : Persist(doc)
    \/ \E tree \in Trees : FilterTree(tree)

SpecReconcile == InitReconcile /\ [][NextReconcile]_vars

\* The background script handed one message, with the loads of the
\* preferences in flight. A promise that is settled runs its continuation
\* before the host delivers anything else.
InitExecute == Start({"background"}, ExecuteStorage, ActiveTabs)

NextExecute ==
    \/ \E message \in Messages : ~getStateSettled /\ HandleRuntimeMessage(message)
    \/ \E i \in 1..Len(loads) : ~getStateSettled /\ LoadGetResolves(i)
    \/ \E i \in 1..Len(loads), e \in Errors : ~getStateSettled /\ LoadGetRejects(i, e)
    \/ \E i \in 1..Len(loads) : ~getStateSettled /\ LoadCompletes(i)
    \/ GetStateReturns
    \/ ~getStateSettled /\ QueryResolves
    \/ ~getStateSettled /\ QueryRejects
    \/ \E ok \in BOOLEAN : ~getStateSettled /\ TabSettles(ok)
    \/ \E ok \in BOOLEAN : ~getStateSettled /\ CopySettles(ok)
    \/ \E found \in ActiveTabs : ~getStateSettled /\ ActivateTab(found)

SpecExecute == InitExecute /\ [][NextExecute]_vars

\* The IOC pipeline alone: its functions applied to texts and flag trees.
InitIOC == Init /\ context = "background" /\ storage = EmptyObject

NextIOC ==
    \/ \E string \in IOCTexts : DetectIOCType(string)
    \/ \E flags \in FlagTrees, path \in FlagPaths : GetFlagValue(flags, path)
    \/ \E ip \in IOCTexts : SanitiseIP(ip)
    \/ \E ioc \in PipelineTexts, flags \in CopyFlagSettings : HandleCopyToClipboard(ioc, flags)
    \/ \E IOCType \in {"ip", "hash", "url"}, ioc \in PipelineTexts, flags \in CopyFlagSettings :
          \E url \in Templates(IOCType) : ExecuteIOCIntelOfType(IOCType, ioc, flags, url, 0)
    \/ \E templateUrl \in TemplateTexts, ioc \in TemplateIOCs :
          ProcessUrlTemplate(templateUrl, ioc)
    \/ \E input \in SchemeTexts \cup TemplateTexts \cup IOCTexts : NormaliseUrl(input)

SpecIOC == InitIOC /\ [][NextIOC]_vars

(***************************************************************************)
(* The debounce (checked under SpecTimer)                                  *)
(***************************************************************************)

\* The save() calls made so far form a burst as C1 describes it: the burst
\* began when no earlier call was waiting to be flushed, each call followed
\* the previous one by less than delay, and the last call came less than
\* maxWait after the first.
ConformingBurst == burst.gap # -1 /\ burst.idleStart /\ burst.spanAtLast < maxWait

\* The burst is over: delay has passed since its last call, or maxWait since
\* its first, and no timer is waiting to run.
BurstOver == (burst.gap >= delay \/ burst.span >= maxWait) /\ ~debounceDue

\* C1: with delay = 500 and maxWait = 1000, a burst of save() calls, each
\* less than delay after the previous one and the whole burst shorter than
\* maxWait, invokes the saver exactly once (never twice, and once when the
\* burst is over), no later than maxWait after the first call of the burst.
C1_BurstSavedOnce ==
    ConformingBurst =>
        /\ burst.fires <= 1
        /\ burst.fires = 1 => burst.fireSpan <= maxWait
        /\ BurstOver => burst.fires = 1

\* A burst whose last call came delay or more after its first, flushed by the
\* maxWait timer.
C1_Witness ==
    /\ ConformingBurst
    /\ burst.spanAtLast >= delay
    /\ burst.fires = 1
    /\ burst.fireSpan = maxWait

\* C2: whatever the save() calls, the first call not yet handed to the saver
\* never waits longer than maxWait: later calls restart the trailing timer
\* and leave the maxWait timer alone.
C2_FlushedWithinMaxWait == age <= maxWait

\* The deadline of the first un-flushed call is reached while a later call
\* has the trailing timer still running.
C2_Witness == age = maxWait /\ maxTimeoutLeft = 0 /\ timeoutLeft > 0

\* C6 as stated: at any moment at most one saver invocation is in flight.
C6_AtMostOneInFlight == Len(saves) <= 1

\* C6 amended: every debounce window starts exactly one saver invocation,
\* when it closes (none while its timers run, one once they are cleared);
\* the invocation of an earlier window may still be in flight when a later
\* window starts its own.
C6_OneInvocationPerWindow ==
    /\ startedInWindow <= 1
    /\ debounceArmed => startedInWindow = 0
    /\ (~debounceArmed /\ burst.gap # -1) => startedInWindow = 1

\* Two invocations in flight, the second started by the window just closed.
C6_Witness == Len(saves) = 2 /\ ~debounceArmed /\ startedInWindow = 1

(***************************************************************************)
(* Saving and loading (checked under Spec)                                 *)
(***************************************************************************)

\* The reconciliation of a document: what the loader and the saver make of it.
Reconciled(doc) == cleanObject(filterUrls(doc), defaultPreferences)

\* Every entry of every urls array of `doc` satisfies isValidUrl.
ValidUrls(doc) ==
    \A k \in DOMAIN doc : \A i \in 1..Len(doc[k].urls) : validUrl(doc[k].urls[i])

\* Mutations have stopped and every scheduled save has completed: each change
\* of the live state was followed by save(), no timer is armed, no saver
\* invocation is in flight, and the storage accepted the last write.
SavesComplete ==
    /\ ~uncovered
    /\ ~debounceArmed
    /\ saves = <<>>
    /\ lastSaveOk

\* C3: no mutation is permanently lost: once mutations have stopped and every
\* scheduled save has completed, the last document written to storage is the
\* reconciliation of the final live state.
C3_NoMutationLost == SavesComplete => lastWritten = Reconciled(StateVal)

\* Two edits, the last of them leaving a text in a URL field that is no URL,
\* and all saves completed.
C3_Witness == SavesComplete /\ edits >= 2 /\ lastWritten # StateVal

\* C4 as stated, for loads started by notifications: once every started load
\* has completed (none failed, the last to complete was started by a
\* storage-change notification), the live state is the reconciliation of
\* the storage content most recently written.
C4_LiveStateFollowsStorage ==
    (listening /\ loads = <<>> /\ unhandled = {} /\ settled.caller = "listener")
        => StateVal = Reconciled(storage)

\* C5: the saver works on a deep clone taken when the debounced function
\* fired: whatever happens to the live state while the saver is suspended,
\* the snapshot it holds is the (filtered) live state of that moment, and
\* the document handed to storage is its reconciliation.
C5_SnapshotIsolation ==
    \A j \in 1..Len(saves) :
        /\ Deref(heap, saves[j].snap) = filterUrls(saves[j].fired)
        /\ saves[j].doc = Reconciled(saves[j].fired)

\* The live state was edited while a saver invocation is suspended.
C5_Witness == \E j \in 1..Len(saves) : StateVal # saves[j].fired /\ edits > 0

\* C7: load() stores no reference to the loader's output: a step that
\* mutates an object in place (no load completes in it, so the live state
\* and the loader's output keep their references) never changes both the
\* live state and the loader's object.
C7_NoSharedReference ==
    [][(loads' = loads /\ state' = state /\ loaderOut' = loaderOut)
          => ~(StateVal' # StateVal /\ LoaderVal' # LoaderVal)]_vars

\* A load has completed, the loader's object was mutated afterwards, and the
\* live state, which nobody edited, is still what the loader returned.
C7_Witness ==
    /\ settled.status = "fulfilled"
    /\ edits = 0
    /\ DOMAIN loaderOut = DOMAIN state
    /\ LoaderVal # StateVal
    /\ StateVal = Reconciled(StateVal)

\* C8: when the loader throws, load() rejects with that error and leaves
\* the live state as it was.
C8_LoadRejects ==
    [][(Len(loads') < Len(loads) /\ loaderError' # "none")
          => /\ settled'.status = "rejected"
             /\ settled'.err = loaderError'
             /\ state' = state
             /\ StateVal' = StateVal]_vars

\* A load started by the listener was rejected while the live state holds
\* what an earlier load installed.
C8_Witness ==
    /\ settled.caller = "listener"
    /\ settled.status = "rejected"
    /\ settled.err = loaderError
    /\ state # EmptyObject

\* C9 as stated: when the load started by the PreferencesState constructor
\* fails, the constructor logs the failure, the error is not left as an
\* unhandled rejection, and the live state is the default configuration.
C9_InitialLoadFailureHandled ==
    (settled.caller = "constructor" /\ settled.status = "rejected")
        => /\ LoadFailedMessage \in console
           /\ settled.err \notin unhandled
           /\ StateVal = defaultPreferences

\* C10 as stated: every urls entry of the live state and of the document the
\* saver persisted satisfies isValidUrl.
C10_AllUrlsValid == ValidUrls(StateVal) /\ ValidUrls(lastWritten)

\* C10 amended: every urls entry of every document the saver hands to
\* storage satisfies isValidUrl, and so does every entry of the live state
\* as a load installed it; a URL field edited in the popup holds whatever
\* was typed until the next save filters its snapshot.
C10_WrittenUrlsValid ==
    /\ ValidUrls(lastWritten)
    /\ \A j \in 1..Len(saves) : ValidUrls(saves[j].doc)
    /\ ~urlEdited => ValidUrls(StateVal)

\* The live state holds a text that is no URL, and the save that followed
\* the edit wrote a document without it.
C10_Witness ==
    /\ urlEdited
    /\ ~ValidUrls(StateVal)
    /\ lastSaveOk
    /\ ~uncovered /\ ~debounceArmed
    /\ ValidUrls(lastWritten)

(***************************************************************************)
(* Reconciliation (C11 under Spec, the others under SpecReconcile)         *)
(***************************************************************************)

\* C11: the keys of the live state are keys of defaultPreferences, and so are
\* the keys of every document the saver hands to storage or has written: a
\* key of the raw storage that the defaults lack reaches neither.
C11_OnlyDefaultKeys ==
    /\ DOMAIN state \subseteq DOMAIN defaultPreferences
    /\ DOMAIN lastWritten \subseteq DOMAIN defaultPreferences
    /\ \A j \in 1..Len(saves) : DOMAIN saves[j].doc \subseteq DOMAIN defaultPreferences

\* The storage held the key `retired` when the process started; the load has
\* installed it without that key and a save has written the edited state.
C11_Witness ==
    /\ writes = 0
    /\ edits > 0
    /\ lastSaveOk
    /\ lastWritten # EmptyObject
    /\ lastWritten.hash.urls = << "example.com/{hash}" >>
    /\ DOMAIN state = DOMAIN defaultPreferences
    /\ "retired" \notin DOMAIN storage

\* C12: reconciliation is idempotent: the load path (URL filtering, then
\* cleanObject against the defaults) applied to what the load path or the
\* save path produced returns it unchanged.
C12_ReconcileIdempotent ==
    call.fn \in {"loadState", "saveState"} => loadState(call.result) = call.result

\* A raw document that reconciliation changed (two texts that are no URLs
\* stood next to each other in a urls array, and a field was missing).
C12_Witness ==
    /\ call.fn = "loadState"
    /\ call.result # call.arg
    /\ \E k \in DOMAIN call.arg :
          /\ k \in DOMAIN call.result
          /\ call.arg[k].has = {"flags", "urls"}
          /\ Len(call.arg[k].urls) >= 2
          /\ call.arg[k].urls[1] \in NotUrl
          /\ call.arg[k].urls[2] \in NotUrl

\* The flag list `out` has the names and the nesting of the default list
\* `def`, each value being that of the first flag of `raw` with that name at
\* that place when it is a boolean, and the default value otherwise.
RECURSIVE FlagsConform(_, _, _)
FlagsConform(out, raw, def) ==
    /\ Len(out) = Len(def)
    /\ \A i \in 1..Len(def) :
          LET r == findFlag(raw, def[i].name)
          IN  /\ out[i].name = def[i].name
              /\ out[i].vt = "bool"
              /\ out[i].value = IF r # <<>> /\ r[1].vt = "bool"
                                THEN r[1].value ELSE def[i].value
              /\ FlagsConform(out[i].subFlags,
                              IF r # <<>> THEN r[1].subFlags ELSE <<>>,
                              def[i].subFlags)

\* The flag list stored under key k of `raw`, empty when there is none.
RawFlagsAt(raw, k) ==
    IF k \in DOMAIN raw /\ "flags" \in raw[k].has THEN raw[k].flags ELSE <<>>

\* C13: the flag trees the loader returns have exactly the names and nesting
\* of the default flag trees: a flag of the raw document that the defaults
\* lack is dropped, a flag the raw document lacks is filled from the
\* defaults, and a value is the raw value when that is a boolean and the
\* default value otherwise.
C13_FlagTreesOfDefaults ==
    call.fn = "loadState" =>
        \A k \in DOMAIN defaultPreferences :
            /\ k \in DOMAIN call.result
            /\ FlagsConform(call.result[k].flags, RawFlagsAt(call.arg, k),
                            defaultPreferences[k].flags)

\* The raw flag list began with a flag the defaults lack and held the
\* opposite of every default value: the unknown flag is gone and the raw
\* values are kept.
C13_Witness ==
    /\ call.fn = "loadState"
    /\ "ip" \in DOMAIN call.arg
    /\ "flags" \in call.arg.ip.has
    /\ call.arg.ip.flags = << Legacy >> \o Toggled(defaultPreferences.ip.flags)
    /\ call.result.ip.flags = Toggled(defaultPreferences.ip.flags)
    /\ call.result.hash.flags = defaultPreferences.hash.flags

\* C14: the loader applied to the empty object {} returns exactly the
\* default configuration: every urls array is the default one, and URL
\* filtering removes no default entry.
C14_EmptyYieldsDefaults ==
    (call.fn = "loadState" /\ call.arg = EmptyObject) =>
        /\ call.result = defaultPreferences
        /\ \A k \in DOMAIN defaultPreferences :
              /\ call.result[k].urls = defaultPreferences[k].urls
              /\ keepValidUrls(call.result[k].urls) = defaultPreferences[k].urls

\* The loader was applied to {} and returned the three default definitions.
C14_Witness ==
    /\ call.fn = "loadState"
    /\ call.arg = EmptyObject
    /\ DOMAIN call.result = {"ip", "hash", "url"}
    /\ Len(call.result.url.urls) = 3

\* `out` is `in` without its entries that fail isValidUrl: as many entries
\* as `in` has valid ones, the j-th of them being the j-th valid entry of
\* `in`.
IsFilterOf(out, in) ==
    LET kept == {i \in 1..Len(in) : validUrl(in[i])}
    IN  /\ Len(out) = Cardinality(kept)
        /\ \A j \in 1..Len(out) :
              \E i \in kept : /\ Cardinality({m \in kept : m <= i}) = j
                              /\ out[j] = in[i]

\* The value `out` is the value `in` with every array that an object holds
\* under a key spelled urls (in any case) filtered, whatever its depth, and
\* nothing else changed; underUrls tells whether `in` is held under such a
\* key.
RECURSIVE FilteredValue(_, _, _)
FilteredValue(out, in, underUrls) ==
    /\ out.kind = in.kind
    /\ in.kind = "string" => out = in
    /\ in.kind = "array" =>
          IF underUrls
          THEN /\ \A i \in 1..Len(out.items) : out.items[i].kind = "string"
               /\ IsFilterOf(Texts(out), Texts(in))
          ELSE /\ Len(out.items) = Len(in.items)
               /\ \A i \in 1..Len(in.items) :
                     FilteredValue(out.items[i], in.items[i], FALSE)
    /\ in.kind = "object" =>
          /\ DOMAIN out.fields = DOMAIN in.fields
          /\ \A key \in DOMAIN in.fields :
                FilteredValue(out.fields[key], in.fields[key],
                              key \in {"urls", "URLs"})

\* C15: URL filtering removes exactly the entries of each urls array that
\* fail isValidUrl and keeps the valid ones in their order, replacing and
\* correcting nothing, at any depth of the object; the loader's result holds,
\* for each stored urls array, the array so filtered.
C15_FilterRemovesExactlyInvalid ==
    /\ call.fn = "forEachUrls" => FilteredValue(call.result, call.arg, FALSE)
    /\ call.fn = "loadState" =>
          /\ traverse(toValue(call.arg)) = toValue(filterUrls(call.arg))
          /\ \A k \in DOMAIN call.arg \cap DOMAIN defaultPreferences :
                "urls" \in call.arg[k].has
                    => IsFilterOf(call.result[k].urls, call.arg[k].urls)

\* A urls array two objects down held a valid URL between two texts that
\* are no URLs: the traversal left the valid one alone.
C15_Witness ==
    /\ call.fn = "forEachUrls"
    /\ call.arg = Obj([nested |-> Obj([deeper |-> Obj([urls |->
            Strs(<< "not a url", "shodan.io/host/{ip}", "example.com/{hash}" >>)])])])
    /\ call.result = Obj([nested |-> Obj([deeper |-> Obj([urls |->
            Strs(<< "shodan.io/host/{ip}", "example.com/{hash}" >>)])])])

(***************************************************************************)
(* The IOC pipeline (checked under SpecIOC)                                *)
(***************************************************************************)

\* `string` consists of n hexadecimal digits, in either case
IsHex(string, n) ==
    /\ Len(string) = n
    /\ \A i \in 1..n : toLowerCaseChar(Ch(string, i)) \in HexDigits

\* C16: detectIOCType normalises its input and returns the tag of the first
\* pattern that matches, in the order IPv4, IPv6, hash, URL: a string that
\* matches the IPv4 or the IPv6 pattern (as given or once normalised) yields
\* "ip", a string of 32, 40 or 64 hexadecimal digits in either case yields
\* "hash", and a string that matches no pattern or normalises to the empty
\* string yields null.
C16_DetectIOCType ==
    call.fn = "detectIOCType" =>
        LET normalised == normaliseString(call.arg)
            ip == IPV4_PATTERN(normalised) \/ IPV6_PATTERN(normalised)
            hash == HASH_PATTERN(normalised)
            url == FULL_URL_PATTERN(normalised)
        IN  /\ ip => call.result = "ip"
            /\ (IPV4_PATTERN(call.arg) \/ IPV6_PATTERN(call.arg)) => call.result = "ip"
            /\ (\E n \in {32, 40, 64} : IsHex(call.arg, n)) => call.result = "hash"
            /\ call.result = "hash" => hash /\ ~ip
            /\ call.result = "url" => url /\ ~hash /\ ~ip
            /\ (normalised = "" \/ ~(ip \/ hash \/ url)) => call.result = Null
            /\ call.arg \in Decorated(IPv4Texts \cup IPv6Texts) => call.result = "ip"
            /\ call.arg \in Decorated(HashTexts) => call.result = "hash"
            /\ call.arg \in Decorated(WebTexts) => call.result = "url"
            /\ call.arg \in Decorated(OtherTexts) => call.result = Null

\* An IPv4-mapped IPv6 address between white space was classified as an IP
\* address.
C16_Witness ==
    /\ call.fn = "detectIOCType"
    /\ call.arg = "  ::ffff:192.168.1.1\t"
    /\ call.result = "ip"

\* The value of the flag that the walk along `path` reaches: at each level
\* the first sibling named as the path element, its value once the last
\* element of the path is consumed, undefined when a step finds no flag.
RECURSIVE FlagAtPath(_, _, _)
FlagAtPath(level, path, i) ==
    IF i > Len(path) THEN Undefined
    ELSE LET hits == {j \in 1..Len(level) : level[j].name = path[i]}
         IN  IF hits = {} THEN Undefined
             ELSE LET flag == level[CHOOSE j \in hits : \A m \in hits : j <= m]
                  IN  IF i = Len(path) THEN Defined(flag.value)
                      ELSE FlagAtPath(IF "subFlags" \in DOMAIN flag THEN flag.subFlags ELSE <<>>,
                                      path, i + 1)

\* C17 as stated: for every flag tree and every path, getFlagValue returns
\* the value of the flag reached after the last element of the path is
\* consumed (taking the first sibling of the name at each level, descending
\* into subFlags before that), and undefined as soon as a step finds no
\* flag, also when a name occurs in the path more than once.
C17_GetFlagValueWalksPath ==
    call.fn = "getFlagValue" => call.result = FlagAtPath(call.flags, call.path, 1)

\* What a text of the model is: "ip", "hash", "url" or null.
TypeOfText(text) ==
    IF text \in IPv4Texts \cup IPv6Texts THEN "ip"
    ELSE IF text \in HashTexts THEN "hash"
    ELSE IF text \in WebTexts THEN "url"
    ELSE Null

\* The flag at `path` is there and true (a missing flag counts as false).
FlagIsTrue(flags, path) == FlagAtPath(flags, path, 1) = Defined(TRUE)

\* An IOC of type t is to be copied, and to be sanitised, under `flags`.
CopyDecided(t, flags) == t # Null /\ FlagIsTrue(flags, << CopyFlagName[t] >>)

SanitiseDecided(t, flags) ==
    /\ CopyDecided(t, flags)
    /\ t \in {"ip", "url"}
    /\ FlagIsTrue(flags, << CopyFlagName[t], SanitiseFlagName[t] >>)

NoBareDot(text) ==
    \A i \in 1..Len(text) :
        Ch(text, i) = "." => /\ i > 1 /\ Ch(text, i - 1) = "["
                             /\ i < Len(text) /\ Ch(text, i + 1) = "]"

\* C19 as stated: when a url IOC is processed with the copy flag and the
\* Sanitise URL sub-flag both true, the text handed to the clipboard is the
\* IOC with every '.' replaced by '[.]': no '.' of it stands outside
\* brackets.
C19_SanitisedUrlCopied ==
    (/\ call.fn \in {"handleCopyToClipboard", "executeIOCIntelOfType"}
     /\ TypeOfText(call.ioc) = "url"
     /\ call.fn = "executeIOCIntelOfType" => call.IOCType = "url"
     /\ SanitiseDecided("url", call.flags))
        => /\ clipboard = << sanitiseURL(call.ioc) >>
           /\ NoBareDot(clipboard[1])

\* `out` is `in` with the character at position p (from 1) put in brackets.
BracketedAt(out, in, p) ==
    out = SubSeq(in, 1, p - 1) \o "[" \o Ch(in, p) \o "]" \o SubSeq(in, p + 1, Len(in))

\* C20: sanitiseIP changes exactly one character: the last '.' or ':' of
\* its input, whichever comes later, is put in brackets and every other
\* character is kept; an input with neither is returned as it is.
C20_SanitiseIPLastSeparator ==
    call.fn = "sanitiseIP" =>
        LET separators == {i \in 1..Len(call.arg) : Ch(call.arg, i) \in {".", ":"}}
        IN  /\ separators = {} => call.result = call.arg
            /\ separators # {} =>
                  BracketedAt(call.result, call.arg,
                              CHOOSE p \in separators : \A i \in separators : i <= p)
            /\ call.arg = "192.168.1.1" => call.result = "192.168.1[.]1"
            /\ call.arg = "2001:db8::1" => call.result = "2001:db8:[:]1"

\* An IPv4-mapped IPv6 address, in which the last separator is a '.' that
\* follows ':' characters, was sanitised at that '.'.
C20_Witness ==
    /\ call.fn = "sanitiseIP"
    /\ call.arg = "::ffff:192.168.1.1"
    /\ call.result = "::ffff:192.168.1[.]1"

\* `text` with the first `placeholder` in it replaced by the text `by`
Substituted(text, placeholder, by) ==
    LET at == indexOf(text, placeholder)
    IN  IF at = -1 THEN text
        ELSE slice(text, 0, at) \o by \o slice(text, at + Len(placeholder), Len(text))

BeginsWithScheme(text) ==
    \/ Len(text) >= 7 /\ SubSeq(toLowerCase(text), 1, 7) = "http://"
    \/ Len(text) >= 8 /\ SubSeq(toLowerCase(text), 1, 8) = "https://"

\* The template with the placeholders of the type replaced, before the
\* result is normalised
Substitution(templateUrl, ioc) ==
    LET t == IF ioc = " 192.168.1.1\t" THEN "ip"
             ELSE IF ioc \in {"example.com/?q=$&", "example.com/?price=$$5"} THEN "url"
             ELSE TypeOfText(ioc)
        absolute == IF BeginsWithScheme(ioc) THEN ioc ELSE "https://" \o ioc
    IN  CASE t = "ip" -> Substituted(templateUrl, "{ip}", ioc)
          [] t = "hash" -> Substituted(templateUrl, "{hash}", ioc)
          [] t = "url" ->
               Substituted(
                 Substituted(
                   Substituted(templateUrl, "{url}", absolute),
                   "{encodedUrl}", encodeURIComponent(absolute)),
                 "{domain}", URL(absolute).hostname)
          [] OTHER -> templateUrl

\* C21: processUrlTemplate replaces the placeholder of the IOC's detected
\* type by the IOC as given ({ip}, {hash}; for a URL {url} by the URL with
\* its scheme, {encodedUrl} by its percent-encoding, {domain} by its host)
\* and normalises the result: what it returns begins with http:// or
\* https://, and is the substituted template, with https:// before it when
\* it has no scheme.
C21_ProcessUrlTemplate ==
    (call.fn = "processUrlTemplate" /\ ~call.result.threw) =>
        LET substituted == Substitution(call.templateUrl, call.ioc)
        IN  /\ BeginsWithScheme(call.result.value)
            /\ call.result.value = IF BeginsWithScheme(substituted) THEN substituted
                                    ELSE "https://" \o substituted

\* The example of the specification is computed as stated.
C21_Example ==
    processUrlTemplate("https://lookup.com?ip={ip}", "192.168.1.1").value
        = "https://lookup.com?ip=192.168.1.1"

\* C25: when a saver invocation that failed settles, the failure is logged
\* (the save() call that scheduled it returned when it was made); and after
\* a failure was logged, a save() call arms the timers as before and the
\* debounce firing invokes the saver as before.
C25_SaveFailureSurfaced ==
    [][/\ (\E i \in 1..Len(saves) : ~saves[i].ok /\ saves' = RemoveAt(saves, i))
             => SaveFailedMessage \in console'
       /\ (SaveFailedMessage \in console /\ age = -1 /\ age' = 0)
             => timeoutLeft' = delay /\ maxTimeoutLeft' = maxWait
       /\ (SaveFailedMessage \in console /\ debounceArmed /\ ~debounceArmed')
             => Len(saves') = Len(saves) + 1]_vars

\* A failure was logged, and the saver invocation started last has written
\* the document.
C25_Witness ==
    /\ SaveFailedMessage \in console
    /\ lastSaveOk /\ saves = <<>>
    /\ lastWritten = Reconciled(StateVal)

\* C26: normaliseUrl returns a text that begins with http:// or https://,
\* in whatever letter case, as it is, puts https:// before any other text,
\* and returns what it returned when it is applied to that.
C26_NormaliseUrlIdempotent ==
    call.fn = "normaliseUrl" =>
        /\ call.again = call.result
        /\ call.result = IF BeginsWithScheme(call.arg) THEN call.arg
                          ELSE "https://" \o call.arg

\* A URL with its scheme in upper case was returned as it is.
C26_Witness ==
    /\ call.fn = "normaliseUrl"
    /\ call.arg = "HTTPS://Example.com" /\ call.result = "HTTPS://Example.com"

\* C27: storageLoaded is true only once a load() has completed and the live
\* state is populated, and no saver invocation was started on a snapshot of
\* a live state without keys.
C27_ArmedAfterInitialLoad ==
    /\ storageLoaded => DOMAIN state # {}
    /\ \A j \in 1..Len(saves) : DOMAIN saves[j].fired # {}

\* C27, its consequence alone: the saver is not handed a snapshot taken
\* before the first load has populated the live state.
C27_NoSnapshotBeforeLoad ==
    \A j \in 1..Len(saves) : DOMAIN saves[j].fired # {}

\* Nothing is written to storage before the live state is populated.
C27_NothingWrittenBeforeLoad == DOMAIN state = {} => lastWritten = EmptyObject

(***************************************************************************)
(* The background script handling a message (checked under SpecExecute)    *)
(***************************************************************************)

\* The templates stored for the type of the IOC, as the loader hands them on
StoredTemplates == Reconciled(storage)[exec.iocType].urls

\* C22: when the index is read, it is the index of the tab that is active
\* then plus one (0 without an active tab), and the tabs created are those
\* of the stored templates in their order, the k-th (from 0) not active and
\* at the index read plus k, one for each template when the call resolves
\* to true; and whichever tab is active later, the calls made stay as they
\* are.
C22_BatchInStoredOrder ==
    [][/\ (exec.pc = "query" /\ exec'.batch) =>
             LET start == IF activeTab.defined THEN activeTab.value + 1 ELSE 0
             IN  /\ exec'.tabIndex = start
                 /\ Len(tabs') <= Len(StoredTemplates)
                 /\ exec'.value => Len(tabs') = Len(StoredTemplates)
                 /\ \A k \in 1..Len(tabs') :
                       /\ tabs'[k].request.index = start + (k - 1)
                       /\ tabs'[k].request.active = FALSE
                       /\ tabs'[k].request.url
                             = processUrlTemplate(StoredTemplates[k], exec.ioc).value
       /\ exec.pc = "done" =>
             /\ Len(tabs') = Len(tabs)
             /\ \A k \in 1..Len(tabs) : tabs'[k].request = tabs[k].request]_vars

\* A batch of three tabs, the first created and the next pending, after the
\* active tab changed.
C22_Witness ==
    /\ exec.pc = "done" /\ exec.batch /\ exec.found = Defined(MaxTabIndex)
    /\ Len(tabs) = 3
    /\ tabs[1].status = "created" /\ tabs[2].status = "pending"
    /\ activeTab = Defined(0)

\* executeIOCIntel was called, on an IOC that is of no type or of a type
\* whose stored definition is not active
Inert ==
    /\ exec.pc # "idle" /\ exec.ioc # Null
    /\ LET t == TypeOfText(exec.ioc)
       IN  t = Null \/ ~Reconciled(storage)[t].active

\* C23: for an IOC of no type, and for one whose definition is missing or
\* not active, executeIOCIntel writes nothing to the clipboard, creates no
\* tab, does not reject, and resolves to false.
C23_InertIOCDoesNothing ==
    Inert =>
        /\ clipboard = <<>> /\ copyStatus = "none"
        /\ tabs = <<>>
        /\ exec.status # "rejected"
        /\ exec.pc = "done" => exec.status = "fulfilled" /\ exec.value = FALSE

\* A hash, with the definition of hashes stored as not active, after the
\* state was loaded for this call; and a text of no type.
C23_Witness ==
    /\ exec.pc = "done" /\ exec.iocType = "hash" /\ exec.loaded
    /\ storage = StaleDocument

\* What each IOC of a request is when normalised
NormalisedIOC ==
    [text \in MessageIOCs |->
        CASE text = "  2001:DB8::1 " -> "2001:db8::1"
          [] text = "D41D8CD98F00B204E9800998ECF8427E" -> "d41d8cd98f00b204e9800998ecf8427e"
          [] text = "example[.]com" -> "example.com"
          [] OTHER -> text]

\* C24: for a message that is no object with the action 'executeIOCIntel'
\* and a string as IOC, the handler resolves to false at once, neither
\* throwing nor rejecting, and nothing else happens; for a request,
\* executeIOCIntel runs on the normalised IOC and the handler resolves to
\* the boolean it resolves to.
C24_RuntimeMessages ==
    exec.pc # "idle" =>
        /\ exec.status \in {"pending", "fulfilled"}
        /\ exec.status = "fulfilled" <=> exec.pc = "done"
        /\ exec.value \in BOOLEAN
        /\ exec.message \in OtherMessages =>
              /\ exec.pc = "done" /\ exec.value = FALSE
              /\ exec.ioc = Null /\ ~exec.loaded
              /\ clipboard = <<>> /\ tabs = <<>>
        /\ exec.message \in Requests =>
              exec.ioc = NormalisedIOC[exec.message.fields.IOC.text]

\* A message with another action was answered.
C24_Witness ==
    /\ exec.pc = "done"
    /\ exec.message = Obj([action |-> Str("open"), IOC |-> Str("192.168.1.1")])

\* A request for a defanged URL has resolved to true.
C24_RequestServed ==
    /\ exec.pc = "done" /\ exec.value
    /\ exec.message = Obj([action |-> Str("executeIOCIntel"), IOC |-> Str("example[.]com")])
    /\ Len(tabs) > 0

\* C28: executeIOCIntel resolves to true only when nothing failed: not the
\* copy to the clipboard, not the creation of any tab of the batch.
C28_TrueOnlyOnSuccess ==
    (exec.pc = "done" /\ exec.value) =>
        /\ copyStatus # "rejected"
        /\ \A k \in 1..Len(tabs) : tabs[k].status # "rejected"

\* An error inside executeIOCIntel itself makes it resolve to false: a load
\* of getState() that rejects, a query of the active tab that rejects,
\* processUrlTemplate throwing.
C28_OwnErrorsResolveToFalse ==
    [][(exec.pc # "done" /\ exec'.pc = "done" /\ ExecuteFailedMessage \in console'
          /\ ExecuteFailedMessage \notin console)
         => exec'.status = "fulfilled" /\ exec'.value = FALSE]_vars

\* C29: when executeIOCIntel has resolved to false, it has handed nothing to
\* the clipboard and created no tab.
C29_FailureLeavesNothing ==
    (exec.pc = "done" /\ ~exec.value) => clipboard = <<>> /\ tabs = <<>>

\* Its part about tabs alone
C29_NoTabBeforeFailure ==
    (exec.pc = "done" /\ ~exec.value) => tabs = <<>>

\* A URL that new URL() rejects was handed to the clipboard, and the call
\* resolved to false on the first template.
C29_CopiedThenThrew ==
    /\ exec.pc = "done" /\ ~exec.value /\ exec.batch
    /\ exec.ioc = "example.com:99999"
    /\ clipboard = << "example[.]com:99999" >>

\* C30: getState() starts a load exactly when the live state has no keys;
\* otherwise it returns the live state at once; and whenever it returns,
\* having loaded or not, what it returns is the live state, which has keys
\* and is the stored document reconciled.
C30_GetStateLoadsWhenEmpty ==
    [][/\ (exec.pc = "idle" /\ exec'.pc # "idle" /\ exec'.ioc # Null) =>
             /\ (DOMAIN state = {}) <=> (loads' # loads)
             /\ (DOMAIN state = {}) <=> (exec'.pc = "getState")
             /\ loads' # loads =>
                   loads' = Append(loads, [caller |-> "getState", phase |-> "get",
                                           doc |-> storage])
       /\ (exec.pc \in {"idle", "getState"} /\ exec'.pc \in {"query", "done"}
             /\ exec'.ioc # Null /\ ExecuteFailedMessage \notin console') =>
             /\ exec'.returned = state
             /\ DOMAIN state # {}
             /\ StateVal = Reconciled(storage)
             /\ loads' = loads]_vars

\* getState() has returned after the load it started, with the load of the
\* constructor still in flight.
C30_Witness ==
    /\ exec.pc \in {"query", "done"} /\ exec.loaded
    /\ DOMAIN exec.returned # {}
    /\ loads # <<>>

\* getState() has returned the populated live state without a load.
C30_ReturnedAtOnce ==
    /\ exec.pc \in {"query", "done"} /\ exec.ioc # Null /\ ~exec.loaded
    /\ DOMAIN exec.returned # {}

====
